---- MODULE Spec2Model ----
(***************************************************************************)
(* VocalTractVisualizer: the circular audio buffer and the audio buffer    *)
(* processor of src/src/audio/AudioBuffer.ts as a state machine.           *)
(*                                                                         *)
(* A sample is a natural number.  The producer writes a ramp: the k-th     *)
(* sample ever written has the value k (k >= 1), so every written sample   *)
(* is distinguishable from every other one and from the 0 a Float32Array   *)
(* is initialised with and that read() substitutes on an empty buffer.     *)
(* The code never inspects a sample value, so the ramp loses no behaviour. *)
(*                                                                         *)
(* The transforms of fft.ts and the linear prediction of src/utils/lpc.ts  *)
(* are operators over exact numbers, each applied under a specification of *)
(* its own (FftSpec, LpcSpec, AreaSpec) whose Init draws the arguments.    *)
(*                                                                         *)
(* The RealtimeLPCAnalyzer of lpc.ts and the FeatureExtractor of           *)
(* src/src/audio/FeatureExtractor.ts are objects called under AnalyzerSpec *)
(* and ExtractorSpec; the pitch estimate and the spectral rolloff of the   *)
(* extractor are also applied on their own (PitchSpec, RolloffSpec).       *)
(***************************************************************************)
EXTENDS Integers, Sequences, FiniteSets

VARIABLES
    \* CircularBuffer fields (AudioBuffer.ts:2-6)
    size,         \* capacity chosen by the constructor
    buffer,       \* Float32Array: [0..size-1 -> sample]
    writeIndex,
    readIndex,
    filled,
    \* AudioBufferProcessor fields (AudioBuffer.ts:110-112); 0 while no
    \* processor wraps the buffer
    frameSize,
    hopSize,
    \* getWindowedFrames in progress: its program counter and locals
    wpc,          \* "idle" | "loop"
    wAvail,       \* const availableData (AudioBuffer.ts:188)
    wFrames,      \* frames (AudioBuffer.ts:187)
    \* the arguments of the constructor call and the outcome of each
    \* allocation it attempts (environment)
    request,
    \* LPC.levinsonDurbin in progress: its program counter and locals
    lpc,
    \* RealtimeLPCAnalyzer fields (lpc.ts:274-277)
    lpcAnalyzer,
    \* FeatureExtractor fields (FeatureExtractor.ts:28-31), its lpcAnalyzer
    \* being the variable above
    extractor,
    \* history (not program state)
    nWritten,     \* samples written so far; the next sample is nWritten + 1
    nSinceClear,  \* samples written since construction or the last clear()
    delivered,    \* the stored samples that read() returned to its caller
    burst,        \* n when the last call that changed the buffer was a write of
                  \* n samples into an empty buffer, else 0
    last          \* the most recent call, its result and the state before it

bufVars  == <<size, buffer, writeIndex, readIndex, filled>>
procVars == <<frameSize, hopSize, wpc, wAvail, wFrames, request, lpc, lpcAnalyzer, extractor>>
histVars == <<nWritten, nSinceClear, delivered, burst, last>>
vars     == <<bufVars, procVars, histVars>>

----------------------------------------------------------------------------
(* Bounds of the model *)

\* largest capacity of a directly constructed CircularBuffer
MaxSize == 3
\* longest write / read / peek of one call on a directly constructed buffer
MaxLen == 4
\* largest peek offset
MaxOff == 1
\* samples written in one behaviour of Spec
MaxWritten == 7
\* samples passed to addAudioData in one behaviour of ProcSpec, in blocks of
\* MinFrameSize samples
MaxBlocks == 10
\* frames one getWindowedFrames call is followed through
MaxFrames == 3

----------------------------------------------------------------------------
(* JavaScript arithmetic *)

\* a % b of JavaScript for b > 0: the result takes the sign of a
JsRem(a, b) == IF a >= 0 THEN a % b ELSE 0 - ((0 - a) % b)

\* what a Float32Array stores when it is assigned `undefined` (an index
\* outside the array was read): NaN, here a value no sample has
NaN == -1

Max(a, b) == IF a >= b THEN a ELSE b
Min(a, b) == IF a <= b THEN a ELSE b

----------------------------------------------------------------------------
(* CircularBuffer *)

\* the candidate sizes of the constructor after the requested one
FallbackSizes == <<8192, 4096, 2048, 1024, 512>>
\* the size used when no candidate could be allocated
MinimumSize == 256

\* sizes = [size, 8192, 4096, 2048, 1024, 512]
CandidateSizes(reqSize) == <<reqSize>> \o FallbackSizes

\* The loop of the constructor from candidate k on: allocOk[k] tells whether
\* `new Float32Array(sizes[k])` succeeds (it throws when memory is short, and
\* for a negative length).  The result is the index of the candidate that
\* was allocated, 0 when the loop ends with this.buffer still null.
RECURSIVE TrySizes(_, _, _)
TrySizes(reqSize, allocOk, k) ==
    IF k > Len(CandidateSizes(reqSize)) THEN 0
    ELSE LET trySize == CandidateSizes(reqSize)[k] IN
         IF trySize > reqSize THEN TrySizes(reqSize, allocOk, k + 1)
         ELSE IF allocOk[k] THEN k
         ELSE TrySizes(reqSize, allocOk, k + 1)

\* this.size after construction
AllocatedSize(reqSize, allocOk) ==
    LET k == TrySizes(reqSize, allocOk, 1) IN
    IF k = 0 THEN MinimumSize ELSE CandidateSizes(reqSize)[k]

\* new CircularBuffer(reqSize): a zeroed Float32Array, cursors 0, not filled
NewCircularBuffer(reqSize, allocOk) ==
    LET s == AllocatedSize(reqSize, allocOk) IN
    [size |-> s, buffer |-> [i \in 0 .. s - 1 |-> 0],
     writeIndex |-> 0, readIndex |-> 0, filled |-> FALSE]

\* The allocations the constructor can attempt: 1..6 are the candidates of
\* the loop, 7 is `new Float32Array(this.size)` of the fallback branch.
\* every allocation succeeds
AllocAll == [k \in 1 .. 7 |-> TRUE]
\* the allocation of the requested size fails, the others succeed
AllocFirstFails == [k \in 1 .. 7 |-> k # 1]
\* only the allocations of 1024 and 512 samples (and of the fallback) succeed
AllocOnlySmall == [k \in 1 .. 7 |-> k >= 5]
\* no allocation in the loop succeeds, the one of the fallback does
AllocNone == [k \in 1 .. 7 |-> k = 7]

\* The constructor throws: the loop left this.buffer null and the allocation
\* of the fallback branch, which no try block encloses, fails as well.
ConstructorThrows(reqSize, allocOk) ==
    /\ TrySizes(reqSize, allocOk, 1) = 0
    /\ ~allocOk[7]

\* one iteration of the loop of write()
WriteSample(b, d) ==
    LET w  == (b.writeIndex + 1) % b.size
        b1 == [b EXCEPT !.buffer[b.writeIndex] = d, !.writeIndex = w]
    IN  IF w = b.readIndex
        THEN [b1 EXCEPT !.filled = TRUE, !.readIndex = (b.readIndex + 1) % b.size]
        ELSE b1

\* iterations lo..hi of the loop of write(), in order.  The range is split
\* in two halves only to keep the evaluation shallow, and the test on the
\* size (which no iteration changes) only makes the first half be computed
\* before the second is started.
RECURSIVE WriteRange(_, _, _, _)
WriteRange(b, data, lo, hi) ==
    IF lo > hi THEN b
    ELSE IF lo = hi THEN WriteSample(b, data[lo])
    ELSE LET mid   == (lo + hi) \div 2
             first == WriteRange(b, data, lo, mid)
         IN  IF first.size = b.size
             THEN WriteRange(first, data, mid + 1, hi)
             ELSE first

\* write(data)
Write(b, data) == WriteRange(b, data, 1, Len(data))

\* read() that never clears the FULL flag
ReadSampleKeepsFilled(acc) ==
    LET b == acc.b IN
    IF ~b.filled /\ b.readIndex = b.writeIndex
    THEN [acc EXCEPT !.result = Append(acc.result, 0)]
    ELSE [b |-> [b EXCEPT !.readIndex = (b.readIndex + 1) % b.size],
          result |-> Append(acc.result, b.buffer[b.readIndex])]

\* read() that advances the read cursor also where it substitutes a 0
ReadSampleAdvancesWhenEmpty(acc) ==
    LET b == acc.b
        r == (b.readIndex + 1) % b.size
    IN  IF ~b.filled /\ b.readIndex = b.writeIndex
        THEN [b |-> [b EXCEPT !.readIndex = r],
              result |-> Append(acc.result, 0)]
        ELSE [b |-> [b EXCEPT !.readIndex = r,
                              !.filled = IF r = b.writeIndex THEN FALSE ELSE b.filled],
              result |-> Append(acc.result, b.buffer[b.readIndex])]

\* one iteration of the loop of read(): acc = [b: the buffer, result: the
\* part of the result filled so far]
ReadSample(acc) ==
    LET b == acc.b IN
    IF ~b.filled /\ b.readIndex = b.writeIndex
    THEN [acc EXCEPT !.result = Append(acc.result, 0)]
    ELSE LET r == (b.readIndex + 1) % b.size IN
         [b |-> [b EXCEPT !.readIndex = r,
                          !.filled = IF r = b.writeIndex THEN FALSE ELSE b.filled],
          result |-> Append(acc.result, b.buffer[b.readIndex])]

\* n more iterations of the loop of read() (split and ordered as in
\* WriteRange)
RECURSIVE ReadRange(_, _)
ReadRange(acc, n) ==
    IF n <= 0 THEN acc
    ELSE IF n = 1 THEN ReadSample(acc)
    ELSE LET h     == n \div 2
             first == ReadRange(acc, h)
         IN  IF first.b.size = acc.b.size
             THEN ReadRange(first, n - h)
             ELSE first

\* read(length): the buffer afterwards and the returned array
Read(b, length) == ReadRange([b |-> b, result |-> <<>>], length)

\* this.buffer[i] stored into a Float32Array
Stored(b, i) == IF i \in 0 .. b.size - 1 THEN b.buffer[i] ELSE NaN

\* one iteration of the loop of peek(): acc = [b: the buffer, peekIndex,
\* result: the part of the result filled so far]
PeekSample(acc) ==
    [acc EXCEPT !.result = Append(acc.result, Stored(acc.b, acc.peekIndex)),
                !.peekIndex = JsRem(acc.peekIndex + 1, acc.b.size)]

\* n more iterations of the loop of peek() (split and ordered as in
\* WriteRange)
RECURSIVE PeekRange(_, _)
PeekRange(acc, n) ==
    IF n <= 0 THEN acc
    ELSE IF n = 1 THEN PeekSample(acc)
    ELSE LET h     == n \div 2
             first == PeekRange(acc, h)
         IN  IF first.b.size = acc.b.size
             THEN PeekRange(first, n - h)
             ELSE first

\* peek() that ignores its offset
PeekStartIgnoresOffset(b, length, offset) ==
    JsRem(b.writeIndex - length + b.size, b.size)

\* let peekIndex = (this.writeIndex - length - offset + this.size) % this.size
PeekStart(b, length, offset) ==
    JsRem(b.writeIndex - length - offset + b.size, b.size)

\* peek(length, offset): the buffer afterwards (it assigns no field) and the
\* returned array
Peek(b, length, offset) ==
    LET acc == PeekRange([b |-> b, peekIndex |-> PeekStart(b, length, offset),
                          result |-> <<>>], length)
    IN  [b |-> acc.b, result |-> acc.result]

\* clear() that forgets the FULL flag
ClearKeepsFilled(b) ==
    [b EXCEPT !.buffer = [i \in 0 .. b.size - 1 |-> 0],
              !.writeIndex = 0, !.readIndex = 0]

\* clear()
Clear(b) ==
    [b EXCEPT !.buffer = [i \in 0 .. b.size - 1 |-> 0],
              !.writeIndex = 0, !.readIndex = 0, !.filled = FALSE]

\* getAvailableData() without the branch on the order of the cursors
GetAvailableDataNoBranch(b) ==
    IF b.filled THEN b.size ELSE b.size - b.readIndex + b.writeIndex

\* getAvailableData()
GetAvailableData(b) ==
    IF b.filled THEN b.size
    ELSE IF b.writeIndex >= b.readIndex THEN b.writeIndex - b.readIndex
    ELSE b.size - b.readIndex + b.writeIndex

\* isFull()
IsFull(b) == b.filled

----------------------------------------------------------------------------
(* AudioBufferProcessor *)

MinBufferSize == 2048
MaxBufferSize == 65536
MinFrameSize == 256
MaxFrameSize == 4096
MinHopSize == 128

\* a clamp that forgets the lower limit of the hop size
ValidHopSizeNoFloor(reqHop, validFrameSize) == Min(reqHop, validFrameSize)

\* const validBufferSize = Math.max(2048, Math.min(bufferSize, 65536))
ValidBufferSize(reqBuffer) == Max(MinBufferSize, Min(reqBuffer, MaxBufferSize))
\* const validFrameSize = Math.max(256, Math.min(frameSize, 4096))
ValidFrameSize(reqFrame) == Max(MinFrameSize, Min(reqFrame, MaxFrameSize))
\* const validHopSize = Math.max(128, Math.min(hopSize, validFrameSize))
ValidHopSize(reqHop, validFrameSize) == Max(MinHopSize, Min(reqHop, validFrameSize))

\* new AudioBufferProcessor(bufferSize, frameSize, hopSize)
NewAudioBufferProcessor(req) ==
    [inputBuffer |-> NewCircularBuffer(ValidBufferSize(req.bufferSize), req.allocOk),
     frameSize   |-> ValidFrameSize(req.frameSize),
     hopSize     |-> ValidHopSize(req.hopSize, ValidFrameSize(req.frameSize))]

\* addAudioData(data)
AddAudioData(p, data) == [p EXCEPT !.inputBuffer = Write(p.inputBuffer, data)]

\* getFrames() that takes the frame with read() instead of peek()
GetFramesByRead(p) ==
    IF GetAvailableData(p.inputBuffer) >= p.frameSize
    THEN LET res == Read(p.inputBuffer, p.frameSize) IN
         [p |-> [p EXCEPT !.inputBuffer = res.b], frames |-> <<res.result>>]
    ELSE [p |-> p, frames |-> <<>>]

\* getFrames(): the processor afterwards and the returned list of frames
GetFrames(p) ==
    IF GetAvailableData(p.inputBuffer) >= p.frameSize
    THEN LET res == Peek(p.inputBuffer, p.frameSize, 0) IN
         [p |-> [p EXCEPT !.inputBuffer = res.b], frames |-> <<res.result>>]
    ELSE [p |-> p, frames |-> <<>>]

\* windowedFrame[i] = frame[i] * this.windowFunction[i]: the product is kept
\* as the pair of the sample and the index of the window coefficient
ApplyWindow(frame) == [i \in 1 .. Len(frame) |-> <<frame[i], i - 1>>]

\* the body of the loop of getWindowedFrames(): the processor afterwards and
\* the frame pushed
WindowedFrameStep(p) ==
    LET pk == Peek(p.inputBuffer, p.frameSize, 0)
        rd == Read(pk.b, p.hopSize)
    IN  [p |-> [p EXCEPT !.inputBuffer = rd.b], frame |-> ApplyWindow(pk.result)]

\* AudioBufferProcessor.clear()
ProcessorClear(p) == [p EXCEPT !.inputBuffer = Clear(p.inputBuffer)]

----------------------------------------------------------------------------
(* The state machine of a directly constructed CircularBuffer *)

\* the CircularBuffer object of the current state
Self == [size |-> size, buffer |-> buffer, writeIndex |-> writeIndex,
         readIndex |-> readIndex, filled |-> filled]

\* the object becomes b
Becomes(b) ==
    /\ size' = b.size
    /\ buffer' = b.buffer
    /\ writeIndex' = b.writeIndex
    /\ readIndex' = b.readIndex
    /\ filled' = b.filled

\* the next n samples of the producer
Ramp(from, n) == [i \in 1 .. n |-> from + i]

\* the entries of a result that are not 0 (the stored samples of a read)
RECURSIVE NonZero(_)
NonZero(s) ==
    IF s = <<>> THEN <<>>
    ELSE IF Head(s) = 0 THEN NonZero(Tail(s))
    ELSE <<Head(s)>> \o NonZero(Tail(s))

\* no sample waits to be read
IsEmpty(b) == ~b.filled /\ b.readIndex = b.writeIndex

\* the record of a call: its name, its arguments, its result and the object
\* before it
Call(opName, n, off, ret) ==
    [op |-> opName, n |-> n, off |-> off, ret |-> ret, pre |-> Self,
     preBurst |-> burst]

NoCall(b) ==
    [op |-> "new", n |-> 0, off |-> 0, ret |-> <<>>, pre |-> b, preBurst |-> 0]

\* no call of LPC.levinsonDurbin is in progress
NoLpc == [pc |-> "idle"]

\* no RealtimeLPCAnalyzer and no FeatureExtractor has been constructed
NoAnalyzer == [constructed |-> FALSE]

NoExtractor == [constructed |-> FALSE]

\* a CircularBuffer used without a processor
NoProcessor ==
    /\ frameSize = 0
    /\ hopSize = 0
    /\ wpc = "idle"
    /\ wAvail = 0
    /\ wFrames = <<>>

Init ==
    /\ \E reqSize \in 1 .. MaxSize :
          LET b == NewCircularBuffer(reqSize, AllocAll) IN
          /\ size = b.size
          /\ buffer = b.buffer
          /\ writeIndex = b.writeIndex
          /\ readIndex = b.readIndex
          /\ filled = b.filled
          /\ last = NoCall(b)
          /\ request = [bufferSize |-> reqSize, frameSize |-> 0, hopSize |-> 0,
                        allocOk |-> AllocAll]
    /\ NoProcessor
    /\ nWritten = 0
    /\ nSinceClear = 0
    /\ delivered = <<>>
    /\ burst = 0
    /\ lpc = NoLpc
    /\ lpcAnalyzer = NoAnalyzer
    /\ extractor = NoExtractor

DoWrite ==
    \E n \in 0 .. MaxLen :
        /\ nWritten + n <= MaxWritten
        /\ Becomes(Write(Self, Ramp(nWritten, n)))
        /\ nWritten' = nWritten + n
        /\ nSinceClear' = nSinceClear + n
        /\ burst' = IF n = 0 THEN burst ELSE IF IsEmpty(Self) THEN n ELSE 0
        /\ last' = Call("write", n, 0, <<>>)
        /\ UNCHANGED <<delivered, procVars>>

DoRead ==
    \E n \in 0 .. MaxLen :
        LET res == Read(Self, n) IN
        /\ Becomes(res.b)
        /\ delivered' = delivered \o NonZero(res.result)
        /\ burst' = IF res.b = Self THEN burst ELSE 0
        /\ last' = Call("read", n, 0, res.result)
        /\ UNCHANGED <<nWritten, nSinceClear, procVars>>

DoPeek ==
    \E n \in 0 .. MaxLen, off \in 0 .. MaxOff :
        LET res == Peek(Self, n, off) IN
        /\ Becomes(res.b)
        /\ last' = Call("peek", n, off, res.result)
        /\ UNCHANGED <<nWritten, nSinceClear, delivered, burst, procVars>>

DoClear ==
    /\ Becomes(Clear(Self))
    /\ nSinceClear' = 0
    /\ burst' = 0
    /\ last' = Call("clear", 0, 0, <<>>)
    /\ UNCHANGED <<nWritten, delivered, procVars>>

Next == DoWrite \/ DoRead \/ DoPeek \/ DoClear

Spec == Init /\ [][Next]_vars

----------------------------------------------------------------------------
(* The state machine of an AudioBufferProcessor: a producer calling         *)
(* addAudioData and a consumer polling getFrames / getWindowedFrames, on    *)
(* one JavaScript thread (a call runs to its end before the next starts)   *)

\* the AudioBufferProcessor object of the current state
SelfProc == [inputBuffer |-> Self, frameSize |-> frameSize, hopSize |-> hopSize]

\* the object becomes p
BecomesProc(p) ==
    /\ Becomes(p.inputBuffer)
    /\ frameSize' = p.frameSize
    /\ hopSize' = p.hopSize

\* the lengths of the blocks the capture callback delivers
ChunkLens == {MinHopSize, MinFrameSize, MinBufferSize}

\* the constructor calls ProcSpec starts from: the smallest processor, the
\* same with every allocation of the loop failing (capacity 256 = frameSize),
\* a frame larger than the buffer, a 1024-sample buffer after two failed
\* allocations, and a 512-sample frame over the 256 samples left when every
\* allocation of the loop fails
ProcRequests ==
    { [bufferSize |-> 0, frameSize |-> 0, hopSize |-> 0, allocOk |-> AllocAll],
      [bufferSize |-> 0, frameSize |-> 0, hopSize |-> 0, allocOk |-> AllocNone],
      [bufferSize |-> 0, frameSize |-> MaxFrameSize, hopSize |-> 0, allocOk |-> AllocAll],
      [bufferSize |-> 0, frameSize |-> 512, hopSize |-> 512, allocOk |-> AllocOnlySmall],
      [bufferSize |-> 0, frameSize |-> 512, hopSize |-> 0, allocOk |-> AllocNone] }

\* the record of a call on the processor; the call before it is kept as
\* (prevOp, prevRet)
ProcCall(opName, n, ret) ==
    [op |-> opName, n |-> n, ret |-> ret, pre |-> Self,
     prevOp |-> last.op, prevRet |-> last.ret]

ProcInit ==
    /\ \E req \in ProcRequests :
          LET p == NewAudioBufferProcessor(req) IN
          /\ request = req
          /\ size = p.inputBuffer.size
          /\ buffer = p.inputBuffer.buffer
          /\ writeIndex = p.inputBuffer.writeIndex
          /\ readIndex = p.inputBuffer.readIndex
          /\ filled = p.inputBuffer.filled
          /\ frameSize = p.frameSize
          /\ hopSize = p.hopSize
          /\ last = [op |-> "new", n |-> 0, ret |-> <<>>, pre |-> p.inputBuffer,
                     prevOp |-> "none", prevRet |-> <<>>]
    /\ wpc = "idle"
    /\ wAvail = 0
    /\ wFrames = <<>>
    /\ nWritten = 0
    /\ nSinceClear = 0
    /\ delivered = <<>>
    /\ burst = 0
    /\ lpc = NoLpc
    /\ lpcAnalyzer = NoAnalyzer
    /\ extractor = NoExtractor

\* the producer: addAudioData(data)
DoAddAudioData ==
    /\ wpc = "idle"
    /\ \E n \in ChunkLens :
        /\ nWritten + n <= MaxBlocks * MinFrameSize
        /\ BecomesProc(AddAudioData(SelfProc, Ramp(nWritten, n)))
        /\ nWritten' = nWritten + n
        /\ nSinceClear' = nSinceClear + n
        /\ last' = ProcCall("addAudioData", n, <<>>)
    /\ UNCHANGED <<wpc, wAvail, wFrames, request, lpc, lpcAnalyzer, extractor, delivered, burst>>

\* the poller: getFrames()
DoGetFrames ==
    /\ wpc = "idle"
    /\ LET res == GetFrames(SelfProc) IN
        /\ BecomesProc(res.p)
        /\ last' = ProcCall("getFrames", 0, res.frames)
    /\ UNCHANGED <<wpc, wAvail, wFrames, request, lpc, lpcAnalyzer, extractor, nWritten, nSinceClear, delivered, burst>>

\* getWindowedFrames() up to its loop: frames = [], const availableData =
\* getAvailableData(), and the first test of the loop condition; the call
\* returns [] at once when the test fails
DoGetWindowedFrames ==
    /\ wpc = "idle"
    /\ LET availableData == GetAvailableData(Self) IN
        IF availableData >= frameSize
        THEN /\ wpc' = "loop"
             /\ wAvail' = availableData
             /\ wFrames' = <<>>
             /\ last' = ProcCall("getWindowedFrames:enter", 0, <<>>)
        ELSE /\ last' = ProcCall("getWindowedFrames", 0, <<>>)
             /\ UNCHANGED <<wpc, wAvail, wFrames>>
    /\ UNCHANGED <<bufVars, frameSize, hopSize, request, lpc, lpcAnalyzer, extractor, nWritten, nSinceClear,
                   delivered, burst>>

\* one pass of the loop of getWindowedFrames(): the body, then the test of
\* `availableData >= this.frameSize` on the constant taken before the loop;
\* the call returns frames when the test fails
DoWindowedFrame ==
    /\ wpc = "loop"
    /\ Len(wFrames) < MaxFrames
    /\ LET res == WindowedFrameStep(SelfProc) IN
        /\ BecomesProc(res.p)
        /\ wFrames' = Append(wFrames, res.frame)
        /\ IF wAvail >= frameSize
           THEN /\ wpc' = "loop"
                /\ last' = ProcCall("getWindowedFrames:frame", 0, <<>>)
           ELSE /\ wpc' = "idle"
                /\ last' = ProcCall("getWindowedFrames", 0, wFrames')
    /\ UNCHANGED <<wAvail, request, lpc, lpcAnalyzer, extractor, nWritten, nSinceClear, delivered, burst>>

\* AudioBufferProcessor.clear()
DoProcessorClear ==
    /\ wpc = "idle"
    /\ BecomesProc(ProcessorClear(SelfProc))
    /\ nSinceClear' = 0
    /\ last' = ProcCall("clear", 0, <<>>)
    /\ UNCHANGED <<wpc, wAvail, wFrames, request, lpc, lpcAnalyzer, extractor, nWritten, delivered, burst>>

ProcNext ==
    \/ DoAddAudioData
    \/ DoGetFrames
    \/ DoGetWindowedFrames
    \/ DoWindowedFrame
    \/ DoProcessorClear

ProcSpec == ProcInit /\ [][ProcNext]_vars

----------------------------------------------------------------------------
(* The constructor of AudioBufferProcessor on its own: a requested          *)
(* configuration, then the object constructed from it                      *)

BufferRequests == {0, MinBufferSize, 5000, MaxBufferSize, MaxBufferSize + 1}
FrameRequests == {0, MinFrameSize, 1000, MaxFrameSize, MaxFrameSize + 1}
HopRequests == {0, MinHopSize, 300, MaxFrameSize, MaxFrameSize + 1}
AllocOutcomes == {AllocAll, AllocFirstFails, AllocOnlySmall, AllocNone}

\* the fields as their initialisers leave them (buffer = null, size = 0),
\* before the body of the constructor runs
CtorInit ==
    /\ request \in [bufferSize : BufferRequests, frameSize : FrameRequests,
                    hopSize : HopRequests, allocOk : AllocOutcomes]
    /\ size = 0
    /\ buffer = <<>>
    /\ writeIndex = 0
    /\ readIndex = 0
    /\ filled = FALSE
    /\ frameSize = 0
    /\ hopSize = 0
    /\ wpc = "idle"
    /\ wAvail = 0
    /\ wFrames = <<>>
    /\ nWritten = 0
    /\ nSinceClear = 0
    /\ delivered = <<>>
    /\ burst = 0
    /\ last = [op |-> "request", validBufferSize |-> 0]
    /\ lpc = NoLpc
    /\ lpcAnalyzer = NoAnalyzer
    /\ extractor = NoExtractor

\* new AudioBufferProcessor(bufferSize, frameSize, hopSize)
DoConstruct ==
    /\ last.op = "request"
    /\ BecomesProc(NewAudioBufferProcessor(request))
    /\ last' = [op |-> "construct",
                validBufferSize |-> ValidBufferSize(request.bufferSize)]
    /\ UNCHANGED <<wpc, wAvail, wFrames, request, lpc, lpcAnalyzer, extractor, nWritten, nSinceClear,
                   delivered, burst>>

CtorNext == DoConstruct

CtorSpec == CtorInit /\ [][CtorNext]_vars

----------------------------------------------------------------------------
(* The constructor of CircularBuffer on its own, under every outcome of    *)
(* the allocations it attempts                                             *)

\* requested sizes: below, at and between the candidate sizes
SizeRequests == {-1, 0, 1, 255, 256, 257, 512, 1000, 1024, 5000, 8192, 10000}

\* `new Float32Array(n)` throws a RangeError for a negative n whatever the
\* memory; every other allocation succeeds or fails
AllocVectors(reqSize) ==
    {ok \in [1 .. 7 -> BOOLEAN] : reqSize < 0 => ~ok[1]}

BufCtorInit ==
    /\ \E reqSize \in SizeRequests :
          \E ok \in AllocVectors(reqSize) :
              request = [bufferSize |-> reqSize, frameSize |-> 0, hopSize |-> 0,
                         allocOk |-> ok]
    /\ size = 0
    /\ buffer = <<>>
    /\ writeIndex = 0
    /\ readIndex = 0
    /\ filled = FALSE
    /\ NoProcessor
    /\ nWritten = 0
    /\ nSinceClear = 0
    /\ delivered = <<>>
    /\ burst = 0
    /\ last = [op |-> "request", threw |-> FALSE]
    /\ lpc = NoLpc
    /\ lpcAnalyzer = NoAnalyzer
    /\ extractor = NoExtractor

\* new CircularBuffer(size) that returns an object
DoNewCircularBuffer ==
    /\ last.op = "request"
    /\ ~ConstructorThrows(request.bufferSize, request.allocOk)
    /\ Becomes(NewCircularBuffer(request.bufferSize, request.allocOk))
    /\ last' = [op |-> "new CircularBuffer", threw |-> FALSE]
    /\ UNCHANGED <<procVars, nWritten, nSinceClear, delivered, burst>>

\* new CircularBuffer(size) that ends in the exception of the last
\* allocation: this.size was set to 256 (AudioBuffer.ts:27), this.buffer is
\* still null, and the caller gets no object
DoNewCircularBufferThrows ==
    /\ last.op = "request"
    /\ ConstructorThrows(request.bufferSize, request.allocOk)
    /\ size' = MinimumSize
    /\ last' = [op |-> "new CircularBuffer", threw |-> TRUE]
    /\ UNCHANGED <<buffer, writeIndex, readIndex, filled, procVars, nWritten,
                   nSinceClear, delivered, burst>>

BufCtorNext ==
    \/ DoNewCircularBuffer
    \/ DoNewCircularBufferThrows

BufCtorSpec == BufCtorInit /\ [][BufCtorNext]_vars

----------------------------------------------------------------------------
(* The numbers of the transforms (src/utils/fft.ts, src/utils/lpc.ts)      *)
(*                                                                         *)
(* The arithmetic is exact: a number of the FFT is an element of the real  *)
(* field generated by cos(2*pi/TrigN), which holds every sample, twiddle   *)
(* factor and bin of a transform of up to TrigN points.  It is written     *)
(*     (a[0]*cos(0) + a[1]*cos(2*pi/TrigN) + ... ) / 2^e                   *)
(* over the TrigN/4 cosines below a quarter turn, which are linearly       *)
(* independent over the rationals, with e as small as possible: two        *)
(* numbers are equal exactly when their records are.  The rounding of      *)
(* IEEE doubles and of Float32Array stores is not modelled.                *)

\* the longest transform has 2^MaxBits points
MaxBits == 4
\* largest sample value of the test signals
MaxAmp == 2

\* angles are counted in units of 2*pi/TrigN
TrigN == 2 ^ MaxBits
\* number of basis cosines
TrigQ == TrigN \div 4

ZeroVec == [k \in 0 .. TrigQ - 1 |-> 0]

\* the shortest record of a / 2^e
RECURSIVE RNorm(_, _)
RNorm(a, e) ==
    IF e > 0 /\ \A k \in DOMAIN a : a[k] % 2 = 0
    THEN RNorm([k \in DOMAIN a |-> a[k] \div 2], e - 1)
    ELSE [a |-> a, e |-> e]

\* the integer n as a number
RInt(n) == [a |-> [ZeroVec EXCEPT ![0] = n], e |-> 0]

RNeg(x) == [a |-> [k \in DOMAIN x.a |-> 0 - x.a[k]], e |-> x.e]

\* x + y
RAdd(x, y) ==
    LET e == Max(x.e, y.e) IN
    RNorm([k \in DOMAIN x.a |->
              x.a[k] * 2 ^ (e - x.e) + y.a[k] * 2 ^ (e - y.e)], e)

\* x - y
RSub(x, y) == RAdd(x, RNeg(y))

\* cos(2*pi*k/TrigN) as a signed basis cosine: <<sign, index>>, sign 0 for
\* the quarter turns where the cosine vanishes
CosTerm(k) ==
    LET r == k % TrigN
        h == IF r > TrigN \div 2 THEN TrigN - r ELSE r
    IN  IF 4 * h < TrigN THEN <<1, h>>
        ELSE IF 4 * h = TrigN THEN <<0, 0>>
        ELSE <<-1, TrigN \div 2 - h>>

\* Math.cos(2*pi*k/TrigN)
RCos(k) ==
    LET t == CosTerm(k) IN [a |-> [ZeroVec EXCEPT ![t[2]] = t[1]], e |-> 0]

\* Math.sin(2*pi*k/TrigN) = cos(2*pi*(k - TrigN/4)/TrigN)
RSin(k) == RCos(k - TrigN \div 4 + TrigN)

\* c * cos(2*pi*j/TrigN) * cos(2*pi*k/TrigN) * 2, by the product formula
\* 2*cos(A)*cos(B) = cos(A+B) + cos(A-B)
CosProduct(c, j, k) ==
    LET s == CosTerm(j + k)
        d == CosTerm(j - k + TrigN)
    IN  [i \in 0 .. TrigQ - 1 |->
            (IF i = s[2] THEN c * s[1] ELSE 0) + (IF i = d[2] THEN c * d[1] ELSE 0)]

\* the sum of the products of the terms j of x with every term of y, from
\* term k of y on
RECURSIVE MulRow(_, _, _, _)
MulRow(x, y, j, k) ==
    IF k >= TrigQ THEN ZeroVec
    ELSE LET rest == MulRow(x, y, j, k + 1)
             p    == CosProduct(x.a[j] * y.a[k], j, k)
         IN  [i \in 0 .. TrigQ - 1 |-> p[i] + rest[i]]

RECURSIVE MulRows(_, _, _)
MulRows(x, y, j) ==
    IF j >= TrigQ THEN ZeroVec
    ELSE LET rest == MulRows(x, y, j + 1)
             row  == MulRow(x, y, j, 0)
         IN  [i \in 0 .. TrigQ - 1 |-> row[i] + rest[i]]

\* x * y
RMul(x, y) == RNorm(MulRows(x, y, 0), x.e + y.e + 1)

\* x / 2^bits
RShift(x, bits) == RNorm(x.a, x.e + bits)

\* x is an integer
IsRInt(x) == x.e = 0 /\ \A k \in 1 .. TrigQ - 1 : x.a[k] = 0

\* the result of Math.sqrt on a number that is no square of an integer
\* (no claim needs the value)
NotExact == [a |-> ZeroVec, e |-> -1]

\* Math.sqrt(x) for the squares of integers
RSqrt(x) ==
    IF IsRInt(x) /\ \E n \in 0 .. TrigN * MaxAmp : n * n = x.a[0]
    THEN RInt(CHOOSE n \in 0 .. TrigN * MaxAmp : n * n = x.a[0])
    ELSE NotExact

----------------------------------------------------------------------------
(* class Complex and class FFT (src/utils/fft.ts)                          *)
(* An array is a function on 0 .. length-1, as in the source.              *)

Length(arr) == Cardinality(DOMAIN arr)

Complex(re, im) == [real |-> re, imag |-> im]

\* add(other)
ComplexAdd(c, other) ==
    Complex(RAdd(c.real, other.real), RAdd(c.imag, other.imag))

\* subtract(other) that adds instead
ComplexSubtractAdds(c, other) ==
    Complex(RAdd(c.real, other.real), RAdd(c.imag, other.imag))

\* subtract(other)
ComplexSubtract(c, other) ==
    Complex(RSub(c.real, other.real), RSub(c.imag, other.imag))

\* multiply(other)
ComplexMultiply(c, other) ==
    Complex(RSub(RMul(c.real, other.real), RMul(c.imag, other.imag)),
            RAdd(RMul(c.real, other.imag), RMul(c.imag, other.real)))

\* magnitude()
ComplexMagnitude(c) ==
    RSqrt(RAdd(RMul(c.real, c.real), RMul(c.imag, c.imag)))

\* a & b on 32-bit integers, for a >= 0 and b >= -1 (-1 has every bit set)
RECURSIVE BitAnd(_, _)
BitAnd(a, b) ==
    IF b = -1 THEN a
    ELSE IF a = 0 \/ b = 0 THEN 0
    ELSE (a % 2) * (b % 2) + 2 * BitAnd(a \div 2, b \div 2)

\* the loop of bitReverse from iteration i on
RECURSIVE BitReverseFrom(_, _, _, _)
BitReverseFrom(n, bits, i, reversed) ==
    IF i >= bits THEN reversed
    ELSE BitReverseFrom(n \div 2, bits, i + 1, reversed * 2 + (n % 2))

\* bitReverse(n, bits) that returns n unchanged
BitReverseIdentity(n, bits) == n

\* bitReverse(n, bits)
BitReverse(n, bits) == BitReverseFrom(n, bits, 0, 0)

\* isPowerOfTwo(n) without the test n > 0
IsPowerOfTwoOrZero(n) == BitAnd(n, n - 1) = 0

\* isPowerOfTwo(n)
IsPowerOfTwo(n) == n > 0 /\ BitAnd(n, n - 1) = 0

\* Math.log2(n) for a power of two n (0 for n < 2, where no stage runs)
RECURSIVE Log2(_)
Log2(n) == IF n < 2 THEN 0 ELSE 1 + Log2(n \div 2)

\* the bit-reversal loop of fft from index i on
RECURSIVE BitReversal(_, _, _)
BitReversal(complex, bits, i) ==
    IF i >= Length(complex) THEN complex
    ELSE LET j == BitReverse(i, bits) IN
         IF i < j
         THEN BitReversal([complex EXCEPT ![i] = complex[j], ![j] = complex[i]],
                          bits, i + 1)
         ELSE BitReversal(complex, bits, i + 1)

\* the twiddle factor of butterfly j of a stage of width m:
\* (cos(j*theta), sin(j*theta)) with theta = -2*pi/m
Twiddle(j, m) ==
    LET angle == TrigN - j * (TrigN \div m) IN
    Complex(RCos(angle), RSin(angle))

\* one pass of the innermost loop of fft
Butterfly(complex, k, j, m) ==
    LET m2 == m \div 2
        t  == ComplexMultiply(complex[k + j + m2], Twiddle(j, m))
        u  == complex[k + j]
    IN  [complex EXCEPT ![k + j] = ComplexAdd(u, t),
                        ![k + j + m2] = ComplexSubtract(u, t)]

\* the loops over k and j of one stage, from butterfly p on (butterfly p
\* has k = (p div m2) * m and j = p mod m2)
RECURSIVE Butterflies(_, _, _)
Butterflies(complex, m, p) ==
    IF 2 * p >= Length(complex) THEN complex
    ELSE LET m2 == m \div 2 IN
         Butterflies(Butterfly(complex, (p \div m2) * m, p % m2, m), m, p + 1)

\* the loop over the stages of fft, from `stage` on (m = 1 << stage)
RECURSIVE Stages(_, _, _)
Stages(complex, bits, stage) ==
    IF stage > bits THEN complex
    ELSE Stages(Butterflies(complex, 2 ^ stage, 0), bits, stage + 1)

\* fft(signal): threw tells whether the Error of the length test was thrown
Fft(signal) ==
    LET N == Length(signal) IN
    IF ~IsPowerOfTwo(N) THEN [threw |-> TRUE, ret |-> <<>>]
    ELSE LET complex == [i \in 0 .. N - 1 |-> Complex(signal[i], RInt(0))]
             bits    == Log2(N)
         IN  [threw |-> FALSE,
              ret |-> Stages(BitReversal(complex, bits, 0), bits, 1)]

\* ifft(complex)
Ifft(complex) ==
    LET N          == Length(complex)
        conjugated == [i \in 0 .. N - 1 |->
                          Complex(complex[i].real, RNeg(complex[i].imag))]
        result     == Fft([i \in 0 .. N - 1 |-> conjugated[i].real])
    IN  IF result.threw THEN result
        ELSE [threw |-> FALSE,
              ret |-> [i \in 0 .. N - 1 |-> RShift(result.ret[i].real, Log2(N))]]

----------------------------------------------------------------------------
(* Calls of FFT.fft and FFT.ifft: a signal, its transform, and the inverse *)
(* transform of that spectrum                                              *)

\* new Float32Array(n).fill(v)
DcSignal(n, v) == [i \in 0 .. n - 1 |-> RInt(v)]

\* signal[i] = Math.sin(2 * Math.PI * f * i / n), for n dividing TrigN
Sinusoid(n, f) == [i \in 0 .. n - 1 |-> RSin(f * i * (TrigN \div n))]

\* v at index p, 0 elsewhere
Impulse(n, p, v) == [i \in 0 .. n - 1 |-> RInt(IF i = p THEN v ELSE 0)]

\* 1, 2, ..., n
RampSignal(n) == [i \in 0 .. n - 1 |-> RInt(i + 1)]

\* the lengths fft accepts, up to TrigN
PowerOfTwoLengths == {2 ^ b : b \in 0 .. MaxBits}

TestSignals ==
    {DcSignal(n, v) : n \in 0 .. TrigN, v \in (0 - MaxAmp) .. MaxAmp}
    \cup {RampSignal(n) : n \in 0 .. TrigN}
    \cup UNION {{Impulse(n, p, MaxAmp) : p \in 0 .. n - 1} : n \in 1 .. TrigN}
    \cup UNION {{Sinusoid(n, f) : f \in 1 .. n \div 2 - 1} : n \in PowerOfTwoLengths}

FftInit ==
    /\ request \in [signal : TestSignals]
    /\ size = 0
    /\ buffer = <<>>
    /\ writeIndex = 0
    /\ readIndex = 0
    /\ filled = FALSE
    /\ NoProcessor
    /\ nWritten = 0
    /\ nSinceClear = 0
    /\ delivered = <<>>
    /\ burst = 0
    /\ last = [op |-> "request", threw |-> FALSE, ret |-> <<>>]
    /\ lpc = NoLpc
    /\ lpcAnalyzer = NoAnalyzer
    /\ extractor = NoExtractor

\* FFT.fft(signal)
DoFft ==
    /\ last.op = "request"
    /\ LET r == Fft(request.signal) IN
       last' = [op |-> "fft", threw |-> r.threw, ret |-> r.ret]
    /\ UNCHANGED <<bufVars, procVars, nWritten, nSinceClear, delivered, burst>>

\* FFT.ifft(spectrum) on the spectrum fft returned
DoIfft ==
    /\ last.op = "fft"
    /\ ~last.threw
    /\ LET r == Ifft(last.ret) IN
       last' = [op |-> "ifft", threw |-> r.threw, ret |-> r.ret]
    /\ UNCHANGED <<bufVars, procVars, nWritten, nSinceClear, delivered, burst>>

FftNext ==
    \/ DoFft
    \/ DoIfft

FftSpec == FftInit /\ [][FftNext]_vars

----------------------------------------------------------------------------
(* The numbers of LPC.levinsonDurbin: exact rationals n/d (d > 0, lowest   *)
(* terms) extended with the IEEE values the division by zero produces:     *)
(* Infinity = 1/0, -Infinity = -1/0 and NaN = 0/0.  Rounding is not         *)
(* modelled, and -0 is not told from 0.                                    *)

Abs(n) == IF n < 0 THEN 0 - n ELSE n
Sign(n) == IF n < 0 THEN -1 ELSE IF n = 0 THEN 0 ELSE 1

RECURSIVE Gcd(_, _)
Gcd(a, b) == IF b = 0 THEN a ELSE Gcd(b, a % b)

\* n/d in lowest terms; n/0 is an infinity or NaN
Q(n, d) ==
    IF d = 0 THEN [n |-> Sign(n), d |-> 0]
    ELSE LET g == Gcd(Abs(n), Abs(d)) IN
         [n |-> Sign(d) * (n \div g), d |-> Abs(d) \div g]

QInt(n) == [n |-> n, d |-> 1]
QNaN == [n |-> 0, d |-> 0]

IsNaN(x) == x.n = 0 /\ x.d = 0
IsFinite(x) == x.d > 0

\* x + y
QAdd(x, y) ==
    IF IsFinite(x) /\ IsFinite(y)
    THEN LET g == Gcd(x.d, y.d) IN
         Q(x.n * (y.d \div g) + y.n * (x.d \div g), (x.d \div g) * y.d)
    ELSE IF IsNaN(x) \/ IsNaN(y) THEN QNaN
    ELSE IF IsFinite(y) THEN x
    ELSE IF IsFinite(x) THEN y
    ELSE IF x.n = y.n THEN x
    ELSE QNaN

QNeg(x) == [n |-> 0 - x.n, d |-> x.d]

\* x - y
QSub(x, y) == QAdd(x, QNeg(y))

\* x * y (Infinity * 0 = NaN); the common factors are cancelled first
QMul(x, y) ==
    IF IsFinite(x) /\ IsFinite(y)
    THEN LET g1 == Gcd(Abs(x.n), y.d)
             g2 == Gcd(Abs(y.n), x.d)
         IN  Q((x.n \div g1) * (y.n \div g2), (x.d \div g2) * (y.d \div g1))
    ELSE Q(x.n * y.n, x.d * y.d)

\* x / y (x / 0 is an infinity of the sign of x, 0 / 0 = NaN)
QDiv(x, y) ==
    IF y.n = 0 /\ y.d > 0 THEN Q(x.n, 0)
    ELSE Q(x.n * y.d * Sign(y.n), x.d * Abs(y.n))

\* x <= 0 (false for NaN)
QLeqZero(x) == ~IsNaN(x) /\ x.n <= 0

\* x > 0 (false for NaN)
QPositive(x) == x.n > 0

\* |x| < 1 (false for NaN)
QAbsBelowOne(x) == IsFinite(x) /\ Abs(x.n) < x.d

\* Math.sqrt(x): NaN for NaN and for x < 0, else the number r >= 0 with
\* r * r = x, kept as its square
QSqrt(x) ==
    IF IsNaN(x) \/ x.n < 0 THEN [nan |-> TRUE, square |-> QNaN]
    ELSE [nan |-> FALSE, square |-> x]

----------------------------------------------------------------------------
(* class LPC (src/utils/lpc.ts): levinsonDurbin                            *)
(* The locals of a call are the record lpc:                                *)
(*   pc "loop" (about to test i < order) or "return"; i; E; the arrays a,  *)
(*   k, atemp (functions on 0 .. length-1) and autocorr, order             *)

\* new Float32Array(n)
ZeroArray(n) == [j \in 0 .. n - 1 |-> QInt(0)]

\* lines 43-48: the locals before the loop
LevinsonStart(autocorr, order) ==
    [pc |-> "loop", i |-> 0, autocorr |-> autocorr, order |-> order,
     a |-> ZeroArray(order + 1), k |-> ZeroArray(order),
     atemp |-> ZeroArray(order + 1), E |-> autocorr[0]]

\* the loop of lines 54-56 from j on
RECURSIVE ReflectionSum(_, _, _)
ReflectionSum(l, j, sum) ==
    IF j >= l.i THEN sum
    ELSE ReflectionSum(l, j + 1,
                       QAdd(sum, QMul(l.a[j + 1], l.autocorr[l.i - j])))

\* the loop of lines 61-63 from j on: atemp[j + 1] = a[j + 1] - k[i] * a[i - j]
RECURSIVE UpdateAtemp(_, _)
UpdateAtemp(l, j) ==
    IF j >= l.i THEN l
    ELSE UpdateAtemp(
             [l EXCEPT !.atemp[j + 1] =
                 QSub(l.a[j + 1], QMul(l.k[l.i], l.a[l.i - j]))],
             j + 1)

\* the loop of lines 64-66 from j on: a[j + 1] = atemp[j + 1]
RECURSIVE CopyAtemp(_, _)
CopyAtemp(l, j) ==
    IF j >= l.i THEN l
    ELSE CopyAtemp([l EXCEPT !.a[j + 1] = l.atemp[j + 1]], j + 1)

\* the update with the error multiplied by 1 + k[i]^2 instead of 1 - k[i]^2
LevinsonUpdateErrorGrows(l) ==
    LET ki == QDiv(QSub(l.autocorr[l.i + 1], ReflectionSum(l, 0, QInt(0))), l.E)
        l1 == [l EXCEPT !.k[l.i] = ki, !.a[l.i + 1] = ki]
        l2 == CopyAtemp(UpdateAtemp(l1, 0), 0)
    IN  [l2 EXCEPT !.E = QMul(l.E, QAdd(QInt(1), QMul(ki, ki)))]

\* the update of lines 52-69 of one pass of the loop
LevinsonUpdate(l) ==
    LET ki == QDiv(QSub(l.autocorr[l.i + 1], ReflectionSum(l, 0, QInt(0))), l.E)
        l1 == [l EXCEPT !.k[l.i] = ki, !.a[l.i + 1] = ki]
        l2 == CopyAtemp(UpdateAtemp(l1, 0), 0)
    IN  [l2 EXCEPT !.E = QMul(l.E, QSub(QInt(1), QMul(ki, ki)))]

\* one pass of the loop that goes on to the next stage whatever E is
LevinsonStageNoBreak(l) ==
    [LevinsonUpdate(l) EXCEPT !.i = l.i + 1]

\* one pass of the loop, lines 52-75: the update, then the break on E <= 0
\* or the increment of i
LevinsonStage(l) ==
    LET l1 == LevinsonUpdate(l) IN
    IF QLeqZero(l1.E) THEN [l1 EXCEPT !.pc = "return"]
    ELSE [l1 EXCEPT !.i = l.i + 1]

\* lines 79-89: the result
LevinsonResult(l) ==
    [coefficients |-> [j \in 0 .. l.order - 1 |-> l.a[j + 1]],
     reflectionCoefficients |-> l.k,
     predictionError |-> l.E,
     gain |-> QSqrt(l.E)]

----------------------------------------------------------------------------
(* Calls of LPC.levinsonDurbin, one pass of its loop at a time              *)

\* the largest order
MaxOrder == 4
\* the largest r[0] of the autocorrelation vectors
MaxCorr == 4

\* The vectors of order + 1 lags that LPC.analyze passes (lpc.ts:104-107).
\* LPC.autocorrelation returns r[0] >= 0 (a sum of squares) and
\* |r[lag]| <= r[0]; the vectors are the integer ones with these two
\* properties, positive semi-definite or not.
Autocorrs(order) ==
    UNION {{r \in [0 .. order -> {QInt(v) : v \in (0 - r0) .. r0}] :
                r[0] = QInt(r0)} : r0 \in 0 .. MaxCorr}

LpcInit ==
    /\ \E order \in 0 .. MaxOrder :
          \E r \in Autocorrs(order) :
              request = [autocorr |-> r, order |-> order]
    /\ size = 0
    /\ buffer = <<>>
    /\ writeIndex = 0
    /\ readIndex = 0
    /\ filled = FALSE
    /\ NoProcessor
    /\ lpc = NoLpc
    /\ lpcAnalyzer = NoAnalyzer
    /\ extractor = NoExtractor
    /\ nWritten = 0
    /\ nSinceClear = 0
    /\ delivered = <<>>
    /\ burst = 0
    /\ last = [op |-> "request", trace |-> <<>>]

\* LPC.levinsonDurbin(autocorr, order) is entered
DoLevinsonCall ==
    /\ last.op = "request"
    /\ lpc' = LevinsonStart(request.autocorr, request.order)
    /\ last' = [op |-> "levinsonDurbin:enter", trace |-> <<>>]
    /\ UNCHANGED <<bufVars, frameSize, hopSize, wpc, wAvail, wFrames, request,
                   lpcAnalyzer, extractor, nWritten, nSinceClear, delivered, burst>>

\* one pass of the loop; the locals it leaves are appended to the trace
DoLevinsonStage ==
    /\ lpc.pc = "loop"
    /\ lpc.i < lpc.order
    /\ lpc' = LevinsonStage(lpc)
    /\ last' = [op |-> "levinsonDurbin:stage", trace |-> Append(last.trace, lpc')]
    /\ UNCHANGED <<bufVars, frameSize, hopSize, wpc, wAvail, wFrames, request,
                   lpcAnalyzer, extractor, nWritten, nSinceClear, delivered, burst>>

\* the loop is left, by its test or by the break, and the result returned
DoLevinsonReturn ==
    /\ \/ lpc.pc = "return"
       \/ lpc.pc = "loop" /\ lpc.i >= lpc.order
    /\ lpc' = NoLpc
    /\ last' = [op |-> "levinsonDurbin", trace |-> last.trace,
                ret |-> LevinsonResult(lpc)]
    /\ UNCHANGED <<bufVars, frameSize, hopSize, wpc, wAvail, wFrames, request,
                   lpcAnalyzer, extractor, nWritten, nSinceClear, delivered, burst>>

LpcNext ==
    \/ DoLevinsonCall
    \/ DoLevinsonStage
    \/ DoLevinsonReturn

LpcSpec == LpcInit /\ [][LpcNext]_vars

----------------------------------------------------------------------------
(* LPC.reflectionToArea (src/utils/lpc.ts)                                 *)
(*                                                                         *)
(* A reflection coefficient is given in hundredths (99 is 0.99).  An area  *)
(* is a product of up to MaxCoeffs ratios (100 - k)/(100 + k), far beyond  *)
(* the integers, so a number is kept factored: its sign s and, for a       *)
(* non-zero finite number, the exponent e[i] of Primes[i]; kind tells      *)
(* Infinity and NaN apart from the numbers.  The areas are stored in a     *)
(* Float32Array, whose range is modelled: a double below the smallest      *)
(* Float32 is stored as 0, one above the largest as Infinity.  The         *)
(* rounding of the mantissa is not modelled.                               *)

\* the longest vector of reflection coefficients
MaxCoeffs == 20

\* the primes of the numbers 100 - k and 100 + k of the coefficients used
Primes == <<2, 3, 5, 7, 13, 199>>
\* log2 of each prime in millionths
Log2Micro == <<1000000, 1584963, 2321928, 2807355, 3700440, 7636625>>

NoPrimes == [i \in 1 .. Len(Primes) |-> 0]

FZero == [kind |-> "num", s |-> 0, e |-> NoPrimes]
FNaN == [kind |-> "nan", s |-> 0, e |-> NoPrimes]
FInf(s) == [kind |-> "inf", s |-> s, e |-> NoPrimes]

\* the exponent of the prime p in n > 0
RECURSIVE PrimeExp(_, _)
PrimeExp(n, p) == IF n % p = 0 THEN 1 + PrimeExp(n \div p, p) ELSE 0

\* the integer n (a product of the primes above, or 0) as a number
FInt(n) ==
    IF n = 0 THEN FZero
    ELSE [kind |-> "num", s |-> Sign(n),
          e |-> [i \in 1 .. Len(Primes) |-> PrimeExp(Abs(n), Primes[i])]]

\* x * y
FMul(x, y) ==
    IF x.kind = "nan" \/ y.kind = "nan" THEN FNaN
    ELSE IF x.kind = "inf" \/ y.kind = "inf"
         THEN (IF x.s * y.s = 0 THEN FNaN ELSE FInf(x.s * y.s))
    ELSE IF x.s * y.s = 0 THEN FZero
    ELSE [kind |-> "num", s |-> x.s * y.s,
          e |-> [i \in 1 .. Len(Primes) |-> x.e[i] + y.e[i]]]

\* x / y
FDiv(x, y) ==
    IF x.kind = "nan" \/ y.kind = "nan" THEN FNaN
    ELSE IF x.kind = "inf"
         THEN (IF y.kind = "inf" THEN FNaN
               ELSE FInf(IF y.s < 0 THEN 0 - x.s ELSE x.s))
    ELSE IF y.kind = "inf" THEN FZero
    ELSE IF y.s = 0 THEN (IF x.s = 0 THEN FNaN ELSE FInf(x.s))
    ELSE IF x.s = 0 THEN FZero
    ELSE [kind |-> "num", s |-> x.s * y.s,
          e |-> [i \in 1 .. Len(Primes) |-> x.e[i] - y.e[i]]]

\* sum of e[i] * Log2Micro[i] from i on: log2 |x| in millionths
RECURSIVE Log2Sum(_, _)
Log2Sum(e, i) ==
    IF i > Len(Primes) THEN 0 ELSE e[i] * Log2Micro[i] + Log2Sum(e, i + 1)

\* the value a Float32Array element takes when x is stored in it: 0 up to
\* 2^-150 (half the smallest Float32), Infinity from 2^128 on
Fround(x) ==
    IF x.kind # "num" \/ x.s = 0 THEN x
    ELSE IF Log2Sum(x.e, 1) <= (0 - 150) * 1000000 THEN FZero
    ELSE IF Log2Sum(x.e, 1) >= 128 * 1000000 THEN FInf(x.s)
    ELSE x

\* the clipping left out
ClipNone(k) == k

\* Math.max(-0.99, Math.min(0.99, reflectionCoeffs[i]))
Clip(k) == Max(-99, Min(99, k))

\* (1 - k) / (1 + k) for k in hundredths
AreaRatio(k) == FDiv(FInt(100 - k), FInt(100 + k))

\* the loop of reflectionToArea from i on
RECURSIVE AreaLoop(_, _, _)
AreaLoop(reflectionCoeffs, areas, i) ==
    IF i >= Length(reflectionCoeffs) THEN areas
    ELSE LET k == Clip(reflectionCoeffs[i]) IN
         AreaLoop(reflectionCoeffs,
                  [areas EXCEPT ![i + 1] = Fround(FMul(areas[i], AreaRatio(k)))],
                  i + 1)

\* reflectionToArea(reflectionCoeffs)
ReflectionToArea(reflectionCoeffs) ==
    LET n     == Length(reflectionCoeffs)
        areas == [i \in 0 .. n |-> IF i = 0 THEN FInt(1) ELSE FZero]
    IN  AreaLoop(reflectionCoeffs, areas, 0)

\* the coefficients of the test vectors, in hundredths: inside, at and
\* outside the clipping range
CoeffValues == {-150, -100, -99, -50, -30, 0, 20, 50, 99, 100, 150}

\* every vector of up to 2 coefficients, and the constant vectors of up to
\* MaxCoeffs coefficients
CoeffVectors ==
    UNION {[0 .. n - 1 -> CoeffValues] : n \in 0 .. 2}
    \cup {[i \in 0 .. n - 1 |-> v] : n \in 3 .. MaxCoeffs, v \in CoeffValues}

AreaInit ==
    /\ request \in [reflectionCoeffs : CoeffVectors]
    /\ size = 0
    /\ buffer = <<>>
    /\ writeIndex = 0
    /\ readIndex = 0
    /\ filled = FALSE
    /\ NoProcessor
    /\ lpc = NoLpc
    /\ lpcAnalyzer = NoAnalyzer
    /\ extractor = NoExtractor
    /\ nWritten = 0
    /\ nSinceClear = 0
    /\ delivered = <<>>
    /\ burst = 0
    /\ last = [op |-> "request", ret |-> <<>>]

\* LPC.reflectionToArea(reflectionCoeffs)
DoReflectionToArea ==
    /\ last.op = "request"
    /\ last' = [op |-> "reflectionToArea",
                ret |-> ReflectionToArea(request.reflectionCoeffs)]
    /\ UNCHANGED <<bufVars, procVars, nWritten, nSinceClear, delivered, burst>>

AreaNext == DoReflectionToArea

AreaSpec == AreaInit /\ [][AreaNext]_vars

----------------------------------------------------------------------------
(* class LPC (src/utils/lpc.ts): analyze, and the areas in exact rationals *)
(* A Float32Array is a function on 0 .. length-1.                          *)

\* a/b < c/d for b, d > 0, by the integer parts and then the reciprocals of
\* the fractional parts (no product is formed)
RECURSIVE FractionLess(_, _, _, _)
FractionLess(a, b, c, d) ==
    IF a \div b # c \div d THEN a \div b < c \div d
    ELSE IF c % d = 0 THEN FALSE
    ELSE IF a % b = 0 THEN TRUE
    ELSE FractionLess(d, c % d, b, a % b)

\* x < y (false when either is NaN)
QLess(x, y) ==
    IF IsNaN(x) \/ IsNaN(y) THEN FALSE
    ELSE IF IsFinite(x) /\ IsFinite(y) THEN FractionLess(x.n, x.d, y.n, y.d)
    ELSE IF IsFinite(x) THEN y.n > 0
    ELSE IF IsFinite(y) THEN x.n < 0
    ELSE x.n < y.n

\* Math.max(x, y) and Math.min(x, y): NaN when either is NaN
QMax(x, y) == IF IsNaN(x) \/ IsNaN(y) THEN QNaN ELSE IF QLess(x, y) THEN y ELSE x
QMin(x, y) == IF IsNaN(x) \/ IsNaN(y) THEN QNaN ELSE IF QLess(y, x) THEN y ELSE x

\* applyPreEmphasis(signal, alpha); the store into output[0] of an empty
\* array has no effect
ApplyPreEmphasis(signal, alpha) ==
    [i \in 0 .. Length(signal) - 1 |->
        IF i = 0 THEN signal[0]
        ELSE QSub(signal[i], QMul(alpha, signal[i - 1]))]

\* the inner loop of autocorrelation from n on
RECURSIVE AutocorrelationSum(_, _, _)
AutocorrelationSum(signal, lag, n) ==
    IF n >= Length(signal) - lag THEN QInt(0)
    ELSE QAdd(QMul(signal[n], signal[n + lag]),
              AutocorrelationSum(signal, lag, n + 1))

\* autocorrelation(signal, maxLag)
Autocorrelation(signal, maxLag) ==
    [lag \in 0 .. maxLag - 1 |-> AutocorrelationSum(signal, lag, 0)]

\* the loop of levinsonDurbin run to its end
RECURSIVE LevinsonLoop(_)
LevinsonLoop(l) ==
    IF l.pc = "loop" /\ l.i < l.order THEN LevinsonLoop(LevinsonStage(l))
    ELSE l

\* levinsonDurbin(autocorr, order)
LevinsonDurbin(autocorr, order) ==
    LevinsonResult(LevinsonLoop(LevinsonStart(autocorr, order)))

\* analyze(signal, order, preEmphasis)
LpcAnalyze(signal, order, preEmphasis) ==
    LevinsonDurbin(
        Autocorrelation(ApplyPreEmphasis(signal, preEmphasis), order + 1),
        order)

\* Math.max(-0.99, Math.min(0.99, k))
ClipRational(k) == QMax(Q(-99, 100), QMin(Q(99, 100), k))

\* the loop of reflectionToArea from i on, in exact rationals
RECURSIVE RationalAreaLoop(_, _, _)
RationalAreaLoop(reflectionCoeffs, areas, i) ==
    IF i >= Length(reflectionCoeffs) THEN areas
    ELSE LET k == ClipRational(reflectionCoeffs[i]) IN
         RationalAreaLoop(
             reflectionCoeffs,
             [areas EXCEPT ![i + 1] =
                 QMul(areas[i], QDiv(QSub(QInt(1), k), QAdd(QInt(1), k)))],
             i + 1)

\* reflectionToArea(reflectionCoeffs) in exact rationals
RationalAreas(reflectionCoeffs) ==
    RationalAreaLoop(
        reflectionCoeffs,
        [i \in 0 .. Length(reflectionCoeffs) |->
            IF i = 0 THEN QInt(1) ELSE QInt(0)],
        0)

\* areaToLogArea(areas): each element is Math.log of areas[i] floored at
\* 1e-6, kept as the argument of the logarithm
AreaToLogArea(areas) ==
    [i \in 0 .. Length(areas) - 1 |-> [logOf |-> QMax(areas[i], Q(1, 1000000))]]

----------------------------------------------------------------------------
(* class RealtimeLPCAnalyzer (src/utils/lpc.ts)                            *)
(* preEmphasis is kept in hundredths (97 for 0.97).                        *)

\* the constructor
NewRealtimeLPCAnalyzer(order, preEmphasis, fSize, sampleRate) ==
    [constructed |-> TRUE, order |-> order, preEmphasis |-> preEmphasis,
     frameSize |-> fSize, sampleRate |-> sampleRate]

\* updateParameters that never assigns preEmphasis
AnalyzerUpdateSkipsPreEmphasis(a, params) ==
    [a EXCEPT
        !.order = IF "order" \in DOMAIN params THEN params.order ELSE @,
        !.frameSize = IF "frameSize" \in DOMAIN params THEN params.frameSize ELSE @,
        !.sampleRate = IF "sampleRate" \in DOMAIN params THEN params.sampleRate ELSE @]

\* updateParameters(params): params is a record of some of the four fields;
\* a field it lacks reads as undefined
AnalyzerUpdateParameters(a, params) ==
    [a EXCEPT
        !.order = IF "order" \in DOMAIN params THEN params.order ELSE @,
        !.preEmphasis = IF "preEmphasis" \in DOMAIN params
                        THEN params.preEmphasis ELSE @,
        !.frameSize = IF "frameSize" \in DOMAIN params THEN params.frameSize ELSE @,
        !.sampleRate = IF "sampleRate" \in DOMAIN params THEN params.sampleRate ELSE @]

\* analyzeFrame(frame): the result without its formants (estimateFormants
\* reads the coefficients and the sample rate and changes nothing)
AnalyzeFrame(a, frame) ==
    LET lpcResult == LpcAnalyze(frame, a.order, Q(a.preEmphasis, 100))
        areas     == RationalAreas(lpcResult.reflectionCoefficients)
    IN  [lpc |-> lpcResult, areas |-> areas, logAreas |-> AreaToLogArea(areas)]

----------------------------------------------------------------------------
(* Calls on one RealtimeLPCAnalyzer                                        *)

\* the longest frame analysed
MaxFrameLen == 2
\* the largest order set
MaxAnalyzerOrder == 3

AnalyzerFields == {"order", "preEmphasis", "frameSize", "sampleRate"}

\* the values of each field: small orders, the pre-emphasis coefficients 0,
\* 0.5 and 1 (the range documented at lpc.ts:96), frame sizes and sample
\* rates as in the constructor's defaults and the test (part_006:171-175)
AnalyzerValues ==
    [order |-> 0 .. MaxAnalyzerOrder, preEmphasis |-> {0, 50, 100},
     frameSize |-> {256, 512}, sampleRate |-> {8000, 16000}]

\* the records of some of the four fields
AnalyzerParams ==
    UNION {{p \in [S -> UNION {AnalyzerValues[f] : f \in AnalyzerFields}] :
                \A f \in S : p[f] \in AnalyzerValues[f]} :
           S \in SUBSET AnalyzerFields}

\* the frames: the integer signals of up to MaxFrameLen samples in -1 .. 1
AnalyzerFrames ==
    UNION {[0 .. n - 1 -> {QInt(-1), QInt(0), QInt(1)}] : n \in 0 .. MaxFrameLen}

\* new RealtimeLPCAnalyzer(1, 0.5, 512, 8000)
AnalyzerInit ==
    /\ request = [order |-> 1, preEmphasis |-> 50, frameSize |-> 512,
                  sampleRate |-> 8000]
    /\ lpcAnalyzer = NewRealtimeLPCAnalyzer(request.order, request.preEmphasis,
                                            request.frameSize, request.sampleRate)
    /\ last = [op |-> "new", pre |-> lpcAnalyzer]
    /\ size = 0
    /\ buffer = <<>>
    /\ writeIndex = 0
    /\ readIndex = 0
    /\ filled = FALSE
    /\ NoProcessor
    /\ lpc = NoLpc
    /\ extractor = NoExtractor
    /\ nWritten = 0
    /\ nSinceClear = 0
    /\ delivered = <<>>
    /\ burst = 0

DoAnalyzerUpdateParameters ==
    \E params \in AnalyzerParams :
        /\ lpcAnalyzer' = AnalyzerUpdateParameters(lpcAnalyzer, params)
        /\ last' = [op |-> "updateParameters", params |-> params,
                    pre |-> lpcAnalyzer]
        /\ UNCHANGED <<bufVars, frameSize, hopSize, wpc, wAvail, wFrames,
                       request, lpc, extractor, nWritten, nSinceClear,
                       delivered, burst>>

DoAnalyzeFrame ==
    \E frame \in AnalyzerFrames :
        /\ last' = [op |-> "analyzeFrame", frame |-> frame,
                    ret |-> AnalyzeFrame(lpcAnalyzer, frame),
                    pre |-> lpcAnalyzer]
        /\ UNCHANGED <<bufVars, procVars, nWritten, nSinceClear, delivered,
                       burst>>

AnalyzerNext == DoAnalyzerUpdateParameters \/ DoAnalyzeFrame

AnalyzerSpec == AnalyzerInit /\ [][AnalyzerNext]_vars

----------------------------------------------------------------------------
(* class FeatureExtractor (src/audio/FeatureExtractor.ts)                  *)
(* Samples, spectra and features are the exact rationals of the LPC        *)
(* section; a Float32Array is a function on 0 .. length-1.  Frames have at *)
(* most four samples, for which the Hamming window is rational.            *)

\* the value of an array element that does not exist
Undefined == [undefined |-> TRUE]

\* arr[i]
ArrayGet(arr, i) == IF i \in DOMAIN arr THEN arr[i] ELSE Undefined

\* x as an operand of arithmetic: undefined converts to NaN
ToNumber(x) == IF x = Undefined THEN QNaN ELSE x

\* x >= 0 (false for NaN)
QGeqZero(x) == ~IsNaN(x) /\ x.n >= 0

\* x >= y (false when either is NaN)
QGeq(x, y) == ~IsNaN(x) /\ ~IsNaN(y) /\ ~QLess(x, y)

\* the loop of calculateIntensity from i on
RECURSIVE SumOfSquares(_, _)
SumOfSquares(frame, i) ==
    IF i >= Length(frame) THEN QInt(0)
    ELSE QAdd(QMul(frame[i], frame[i]), SumOfSquares(frame, i + 1))

\* calculateIntensity(frame): the square root is kept as its square
CalculateIntensity(frame) ==
    QSqrt(QDiv(SumOfSquares(frame, 0), QInt(Length(frame))))

\* the loop of calculateZeroCrossingRate from i on
RECURSIVE Crossings(_, _)
Crossings(frame, i) ==
    IF i >= Length(frame) THEN 0
    ELSE (IF QGeqZero(frame[i]) # QGeqZero(frame[i - 1]) THEN 1 ELSE 0)
         + Crossings(frame, i + 1)

\* calculateZeroCrossingRate(frame)
CalculateZeroCrossingRate(frame) ==
    QDiv(QInt(Crossings(frame, 1)), QInt(Length(frame) - 1))

\* Math.cos(2 * Math.PI * i / d) for the d of frames of up to four samples
\* (i / 0 is NaN for the only sample of a frame of one)
CosOfTurns(i, d) ==
    CASE d = 0 -> QNaN
      [] d = 1 -> QInt(1)
      [] d = 2 -> IF i % 2 = 0 THEN QInt(1) ELSE QInt(-1)
      [] d = 3 -> IF i % 3 = 0 THEN QInt(1) ELSE Q(-1, 2)

\* FFT.applyWindow(signal, 'hamming')
ApplyHammingWindow(signal) ==
    LET N == Length(signal) IN
    [i \in 0 .. N - 1 |->
        QMul(signal[i],
             QSub(Q(54, 100), QMul(Q(46, 100), CosOfTurns(i, N - 1))))]

\* the magnitude squared of one bin of the transform of a signal counted
\* in 1/10000
BinPower(c) ==
    LET p == RAdd(RMul(c.real, c.real), RMul(c.imag, c.imag)) IN
    Q(p.a[0], (2 ^ p.e) * 100000000)

\* FFT.powerSpectrum(signal) = |rfft(signal)|^2 on the bins 0 .. N/2.  The
\* transform is linear: it is taken of the samples counted in 1/10000
\* (windowed hundredths), and a NaN sample makes every bin NaN.
PowerSpectrum(signal) ==
    LET N == Length(signal) IN
    IF ~IsPowerOfTwo(N) THEN [threw |-> TRUE, ret |-> <<>>]
    ELSE IF \E i \in DOMAIN signal : ~IsFinite(signal[i])
    THEN [threw |-> FALSE, ret |-> [i \in 0 .. N \div 2 |-> QNaN]]
    ELSE LET fftResult ==
                 Fft([i \in 0 .. N - 1 |->
                         RInt(signal[i].n * (10000 \div signal[i].d))]).ret
         IN  [threw |-> FALSE,
              ret |-> [i \in 0 .. N \div 2 |-> BinPower(fftResult[i])]]

\* FFT.getFrequencyBins(fftSize, sampleRate)
GetFrequencyBins(fftSize, sampleRate) ==
    [i \in 0 .. fftSize \div 2 |-> Q(i * sampleRate, fftSize)]

\* this.previousSpectrum: null, or an array
NoSpectrum == [null |-> TRUE, bins |-> <<>>]
SpectrumOf(bins) == [null |-> FALSE, bins |-> bins]

\* the loop of calculateSpectralFlux from i on
RECURSIVE FluxFrom(_, _, _)
FluxFrom(spectrum, previous, i) ==
    IF i >= Length(spectrum) THEN QInt(0)
    ELSE LET diff == QSub(spectrum[i], ToNumber(ArrayGet(previous, i))) IN
         QAdd(IF QPositive(diff) THEN diff ELSE QInt(0),
              FluxFrom(spectrum, previous, i + 1))

\* calculateSpectralFlux(spectrum) on the extractor e: the extractor it
\* leaves and the flux, or the RangeError of TypedArray.set when the
\* spectrum is longer than the history
CalculateSpectralFlux(e, spectrum) ==
    IF e.previousSpectrum.null
    THEN [ext |-> [e EXCEPT !.previousSpectrum = SpectrumOf(spectrum)],
          threw |-> "", ret |-> QInt(0)]
    ELSE IF Length(spectrum) > Length(e.previousSpectrum.bins)
    THEN [ext |-> e, threw |-> "RangeError", ret |-> QNaN]
    ELSE [ext |-> [e EXCEPT !.previousSpectrum =
                      SpectrumOf([i \in DOMAIN e.previousSpectrum.bins |->
                                     IF i < Length(spectrum) THEN spectrum[i]
                                     ELSE e.previousSpectrum.bins[i]])],
          threw |-> "",
          ret |-> FluxFrom(spectrum, e.previousSpectrum.bins, 0)]

\* spectrum.reduce((sum, val) => sum + val, 0) from i on
RECURSIVE SumFrom(_, _)
SumFrom(spectrum, i) ==
    IF i >= Length(spectrum) THEN QInt(0)
    ELSE QAdd(spectrum[i], SumFrom(spectrum, i + 1))

\* the loop of calculateSpectralRolloff from i on
RECURSIVE RolloffFrom(_, _, _, _, _)
RolloffFrom(spectrum, frequencies, targetEnergy, cumulativeEnergy, i) ==
    IF i >= Length(spectrum)
    THEN ArrayGet(frequencies, Length(frequencies) - 1)
    ELSE LET c == QAdd(cumulativeEnergy, spectrum[i]) IN
         IF QGeq(c, targetEnergy) THEN ArrayGet(frequencies, i)
         ELSE RolloffFrom(spectrum, frequencies, targetEnergy, c, i + 1)

\* the rolloff whose loop starts at bin 1
CalculateSpectralRolloffSkipsBin0(spectrum, frequencies) ==
    RolloffFrom(spectrum, frequencies,
                QMul(SumFrom(spectrum, 0), Q(85, 100)),
                ToNumber(ArrayGet(spectrum, 0)), 1)

\* calculateSpectralRolloff(spectrum, frequencies) with threshold 0.85
CalculateSpectralRolloff(spectrum, frequencies) ==
    RolloffFrom(spectrum, frequencies,
                QMul(SumFrom(spectrum, 0), Q(85, 100)), QInt(0), 0)

\* autocorr[lag] after the loop of estimatePitch (lines 211-218): the sum
\* for the lags minPeriod .. maxPeriod-1, the 0 of new Float32Array for
\* the lags below minPeriod, undefined from maxPeriod on
PitchAutocorr(frame, sampleRate, lag) ==
    IF lag >= sampleRate \div 50 THEN Undefined
    ELSE IF lag < sampleRate \div 500 THEN QInt(0)
    ELSE AutocorrelationSum(frame, lag, 0)

\* the peak search of estimatePitch (lines 221-228) from i on
RECURSIVE PitchPeak(_, _, _, _, _)
PitchPeak(frame, sampleRate, i, maxValue, maxIndex) ==
    IF i >= sampleRate \div 50 THEN [maxValue |-> maxValue, maxIndex |-> maxIndex]
    ELSE LET r == PitchAutocorr(frame, sampleRate, i) IN
         IF QLess(maxValue, r)
         THEN PitchPeak(frame, sampleRate, i + 1, r, i)
         ELSE PitchPeak(frame, sampleRate, i + 1, maxValue, maxIndex)

\* a pitch: null, or a number of Hz
NoPitch == [null |-> TRUE, hz |-> QNaN]
PitchOf(hz) == [null |-> FALSE, hz |-> hz]

\* estimatePitch(frame)
EstimatePitch(frame, sampleRate) ==
    LET peak      == PitchPeak(frame, sampleRate, sampleRate \div 500,
                               QInt(0), 0)
        threshold == QMul(ToNumber(PitchAutocorr(frame, sampleRate, 0)),
                          Q(3, 10))
    IN  IF QLess(peak.maxValue, threshold) THEN NoPitch
        ELSE PitchOf(QDiv(QInt(sampleRate), QInt(peak.maxIndex)))

\* intensity < x and intensity > x for x >= 0, intensity being a square
\* root kept as its square
SqrtBelow(r, x) == ~r.nan /\ QLess(r.square, QMul(x, x))
SqrtAbove(r, x) == ~r.nan /\ QLess(QMul(x, x), r.square)

\* detectVoiceQuality without the test of silence
DetectVoiceQualityNeverSilent(intensity, zcr, f0) ==
    IF /\ ~f0.null
       /\ QLess(QInt(50), f0.hz)
       /\ QLess(f0.hz, QInt(500))
       /\ QLess(zcr, Q(3, 10))
       /\ SqrtAbove(intensity, Q(3, 100))
    THEN "voiced"
    ELSE "unvoiced"

\* detectVoiceQuality(intensity, zcr, f0)
DetectVoiceQuality(intensity, zcr, f0) ==
    IF SqrtBelow(intensity, Q(2, 100)) THEN "silent"
    ELSE IF /\ ~f0.null
            /\ QLess(QInt(50), f0.hz)
            /\ QLess(f0.hz, QInt(500))
            /\ QLess(zcr, Q(3, 10))
            /\ SqrtAbove(intensity, Q(3, 100))
    THEN "voiced"
    ELSE "unvoiced"

\* the largest sample, in hundredths
MaxLevel == 5

\* the shapes of the frames: constant, with equal ends, alternating, and
\* frames of two and of three samples
FrameShapes ==
    {<<1, 1, 1, 1>>, <<1, 0, 0, 1>>, <<1, -1, 1, -1>>,
     <<1, 1>>, <<1, -1>>, <<1, 1, 1>>}

\* the levels of the frames, in hundredths: silence, the two thresholds
\* of detectVoiceQuality, and the largest
FrameLevels == {0, 2, 3, MaxLevel}

\* the frame of a shape at a level
FrameOf(shape, level) ==
    [i \in 0 .. Len(shape) - 1 |-> Q(shape[i + 1] * level, 100)]

ExtractorFrames ==
    {FrameOf(shape, level) : shape \in FrameShapes, level \in FrameLevels}

\* the sample rates of the extractor: their ranges of lags meet a frame of
\* four samples
ExtractorSampleRates == {500, 1000}

\* what extractFeatures computes from the frame alone (lines 57-62 and,
\* for each sample rate, line 72), computed once for each of these frames
FrameAnalysis ==
    [frame \in ExtractorFrames |->
        [intensity |-> CalculateIntensity(frame),
         zcr |-> CalculateZeroCrossingRate(frame),
         power |-> PowerSpectrum(ApplyHammingWindow(frame)),
         pitch |-> [sr \in ExtractorSampleRates |-> EstimatePitch(frame, sr)]]]

\* the constructor; the analyzer it creates is NewRealtimeLPCAnalyzer
NewFeatureExtractor(sampleRate, fSize) ==
    [constructed |-> TRUE, sampleRate |-> sampleRate, frameSize |-> fSize,
     previousSpectrum |-> NoSpectrum]

\* extractFeatures that drops the flux history when the FFT rejects the
\* frame
ExtractFeaturesClearsOnError(e, analysis) ==
    LET flux == CalculateSpectralFlux(e, analysis.power.ret)
        f0   == analysis.pitch[e.sampleRate]
    IN  IF analysis.power.threw
        THEN [ext |-> [e EXCEPT !.previousSpectrum = NoSpectrum],
              threw |-> "InvalidSize", ret |-> <<>>]
        ELSE IF flux.threw # ""
        THEN [ext |-> flux.ext, threw |-> flux.threw, ret |-> <<>>]
        ELSE [ext |-> flux.ext, threw |-> "",
              ret |-> [fundamentalFrequency |-> f0,
                       intensity |-> analysis.intensity,
                       voiceQuality |->
                           DetectVoiceQuality(analysis.intensity,
                                              analysis.zcr, f0),
                       spectralFlux |-> flux.ret,
                       spectralRolloff |->
                           CalculateSpectralRolloff(
                               analysis.power.ret,
                               GetFrequencyBins(e.frameSize, e.sampleRate)),
                       zeroCrossingRate |-> analysis.zcr]]

\* extractFeatures on the extractor e from what it computes of the frame
\* alone (analysis = FrameAnalysis[frame]): the extractor it leaves and the
\* record returned, or the error thrown.  Of the record, the centroid, the
\* spread and the fields of the LPC analysis are left out: they are
\* computed from the frame and the parameters and change nothing.
ExtractFeaturesFrom(e, analysis) ==
    LET flux == CalculateSpectralFlux(e, analysis.power.ret)
        f0   == analysis.pitch[e.sampleRate]
    IN  IF analysis.power.threw
        THEN [ext |-> e, threw |-> "InvalidSize", ret |-> <<>>]
        ELSE IF flux.threw # ""
        THEN [ext |-> flux.ext, threw |-> flux.threw, ret |-> <<>>]
        ELSE [ext |-> flux.ext, threw |-> "",
              ret |-> [fundamentalFrequency |-> f0,
                       intensity |-> analysis.intensity,
                       voiceQuality |->
                           DetectVoiceQuality(analysis.intensity,
                                              analysis.zcr, f0),
                       spectralFlux |-> flux.ret,
                       spectralRolloff |->
                           CalculateSpectralRolloff(
                               analysis.power.ret,
                               GetFrequencyBins(e.frameSize, e.sampleRate)),
                       zeroCrossingRate |-> analysis.zcr]]

\* extractFeatures(frame) on the extractor e
ExtractFeatures(e, frame) == ExtractFeaturesFrom(e, FrameAnalysis[frame])

\* FeatureExtractor.updateParameters(params): the fields of the extractor
\* (lines 316-321); line 323 is AnalyzerUpdateParameters on its analyzer
ExtractorUpdateParameters(e, params) ==
    [e EXCEPT
        !.sampleRate = IF "sampleRate" \in DOMAIN params
                       THEN params.sampleRate ELSE @,
        !.frameSize = IF "frameSize" \in DOMAIN params
                      THEN params.frameSize ELSE @]

\* reset()
ExtractorReset(e) == [e EXCEPT !.previousSpectrum = NoSpectrum]

----------------------------------------------------------------------------
(* Calls on one FeatureExtractor                                           *)

ExtractorFields == {"sampleRate", "frameSize", "lpcOrder"}

\* the values of each field: the sample rates, the sizes of the frames
\* above that fft accepts, and an order
ExtractorValues ==
    [sampleRate |-> ExtractorSampleRates, frameSize |-> {2, 4},
     lpcOrder |-> {10}]

\* the records of some of the three fields
ExtractorParams ==
    UNION {{p \in [S -> UNION {ExtractorValues[f] : f \in ExtractorFields}] :
                \A f \in S : p[f] \in ExtractorValues[f]} :
           S \in SUBSET ExtractorFields}

\* the record of a call: its argument, its outcome, the objects before it,
\* the power spectrum of the latest call that returned since the
\* construction or the last reset, before and after the call, and whether
\* every frame so far had frameSize samples (history)
ExtractorCall(opName, arg, threw, ret, seen, fits) ==
    [op |-> opName, arg |-> arg, threw |-> threw, ret |-> ret,
     pre |-> extractor, preAnalyzer |-> lpcAnalyzer,
     preSeen |-> last.seen, seen |-> seen, fits |-> last.fits /\ fits]

\* new FeatureExtractor(1000, 4, 14)
ExtractorInit ==
    /\ request = [sampleRate |-> 1000, frameSize |-> 4, lpcOrder |-> 14]
    /\ extractor = NewFeatureExtractor(request.sampleRate, request.frameSize)
    /\ lpcAnalyzer = NewRealtimeLPCAnalyzer(request.lpcOrder, 97,
                                            request.frameSize, 8000)
    /\ last = [op |-> "new", arg |-> <<>>, threw |-> "", ret |-> <<>>,
               pre |-> extractor, preAnalyzer |-> lpcAnalyzer,
               preSeen |-> NoSpectrum, seen |-> NoSpectrum, fits |-> TRUE]
    /\ size = 0
    /\ buffer = <<>>
    /\ writeIndex = 0
    /\ readIndex = 0
    /\ filled = FALSE
    /\ NoProcessor
    /\ lpc = NoLpc
    /\ nWritten = 0
    /\ nSinceClear = 0
    /\ delivered = <<>>
    /\ burst = 0

\* the state after extractFeatures(frame) with the outcome res
ExtractFeaturesReturns(frame, res) ==
    /\ extractor' = res.ext
    /\ last' = ExtractorCall(
                   "extractFeatures", frame, res.threw, res.ret,
                   IF res.threw = ""
                   THEN SpectrumOf(FrameAnalysis[frame].power.ret)
                   ELSE last.seen,
                   Length(frame) = extractor.frameSize)

DoExtractFeatures ==
    \E frame \in ExtractorFrames :
        /\ ExtractFeaturesReturns(frame, ExtractFeatures(extractor, frame))
        /\ UNCHANGED <<bufVars, frameSize, hopSize, wpc, wAvail, wFrames,
                       request, lpc, lpcAnalyzer, nWritten, nSinceClear,
                       delivered, burst>>

DoExtractorUpdateParameters ==
    \E params \in ExtractorParams :
        /\ extractor' = ExtractorUpdateParameters(extractor, params)
        /\ lpcAnalyzer' =
              IF "lpcOrder" \in DOMAIN params
              THEN AnalyzerUpdateParameters(
                       lpcAnalyzer, [order |-> params.lpcOrder])
              ELSE lpcAnalyzer
        /\ last' = ExtractorCall("updateParameters", params, "", <<>>, last.seen,
                                 TRUE)
        /\ UNCHANGED <<bufVars, frameSize, hopSize, wpc, wAvail, wFrames,
                       request, lpc, nWritten, nSinceClear, delivered, burst>>

DoExtractorReset ==
    /\ extractor' = ExtractorReset(extractor)
    /\ last' = ExtractorCall("reset", <<>>, "", <<>>, NoSpectrum, TRUE)
    /\ UNCHANGED <<bufVars, frameSize, hopSize, wpc, wAvail, wFrames,
                   request, lpc, lpcAnalyzer, nWritten, nSinceClear,
                   delivered, burst>>

ExtractorNext ==
    \/ DoExtractFeatures
    \/ DoExtractorUpdateParameters
    \/ DoExtractorReset

ExtractorSpec == ExtractorInit /\ [][ExtractorNext]_vars

----------------------------------------------------------------------------
(* Calls of FeatureExtractor.estimatePitch: a frame and a sample rate      *)

\* the longest frame
MaxPitchLen == 4

\* the integer frames of one to MaxPitchLen samples in -1 .. 1
PitchFrames ==
    UNION {[0 .. n - 1 -> {QInt(-1), QInt(0), QInt(1)}] : n \in 1 .. MaxPitchLen}

\* sample rates: two whose range of lags meets these frames, and one whose
\* shortest lag is as long as the longest of them
PitchSampleRates == {500, 1000, 2000}

PitchInit ==
    /\ request \in [frame : PitchFrames, sampleRate : PitchSampleRates]
    /\ last = [op |-> "request", ret |-> NoPitch]
    /\ size = 0
    /\ buffer = <<>>
    /\ writeIndex = 0
    /\ readIndex = 0
    /\ filled = FALSE
    /\ NoProcessor
    /\ lpc = NoLpc
    /\ lpcAnalyzer = NoAnalyzer
    /\ extractor = NoExtractor
    /\ nWritten = 0
    /\ nSinceClear = 0
    /\ delivered = <<>>
    /\ burst = 0

\* estimatePitch(frame) of an extractor with this.sampleRate = sampleRate
DoEstimatePitch ==
    /\ last.op = "request"
    /\ last' = [op |-> "estimatePitch",
                ret |-> EstimatePitch(request.frame, request.sampleRate)]
    /\ UNCHANGED <<bufVars, procVars, nWritten, nSinceClear, delivered, burst>>

PitchNext == DoEstimatePitch

PitchSpec == PitchInit /\ [][PitchNext]_vars

----------------------------------------------------------------------------
(* Calls of FeatureExtractor.calculateSpectralRolloff: a power spectrum    *)
(* and the frequency bins of its transform                                 *)

\* the largest power of a bin
MaxPower == 2

\* the powers of a bin: the naturals up to MaxPower, and the NaN that a
\* frame with a NaN sample gives
PowerValues == {QInt(v) : v \in 0 .. MaxPower} \cup {QNaN}

\* the sizes of the transforms
RolloffSizes == {2, 4, 8}

\* the spectra of rfft for these sizes, and the sample rate
RolloffRequests ==
    UNION {[spectrum : [0 .. n \div 2 -> PowerValues], fftSize : {n},
            sampleRate : {1000}] : n \in RolloffSizes}

RolloffInit ==
    /\ request \in RolloffRequests
    /\ last = [op |-> "request", ret |-> Undefined]
    /\ size = 0
    /\ buffer = <<>>
    /\ writeIndex = 0
    /\ readIndex = 0
    /\ filled = FALSE
    /\ NoProcessor
    /\ lpc = NoLpc
    /\ lpcAnalyzer = NoAnalyzer
    /\ extractor = NoExtractor
    /\ nWritten = 0
    /\ nSinceClear = 0
    /\ delivered = <<>>
    /\ burst = 0

\* calculateSpectralRolloff(spectrum, frequencies) as extractFeatures calls
\* it (lines 63 and 69)
DoCalculateSpectralRolloff ==
    /\ last.op = "request"
    /\ last' = [op |-> "calculateSpectralRolloff",
                ret |-> CalculateSpectralRolloff(
                            request.spectrum,
                            GetFrequencyBins(request.fftSize,
                                             request.sampleRate))]
    /\ UNCHANGED <<bufVars, procVars, nWritten, nSinceClear, delivered, burst>>

RolloffNext == DoCalculateSpectralRolloff

RolloffSpec == RolloffInit /\ [][RolloffNext]_vars

----------------------------------------------------------------------------
(* Helpers of the properties *)

\* the set of the entries of a sequence
Range(s) == {s[i] : i \in 1 .. Len(s)}

\* n zeros
Zeros(n) == [i \in 1 .. n |-> 0]

\* the samples still unread: what reading the whole capacity would deliver
Unread(b) == NonZero(Read(b, b.size).result)

\* the written samples that no read returned and no read can return any more
Lost == {k \in 1 .. nWritten : k \notin Range(delivered) /\ k \notin Range(Unread(Self))}

\* the number of samples a write must add to a buffer that is not full for
\* the write cursor to catch the read cursor
Gap(b) == ((b.readIndex - b.writeIndex - 1 + b.size) % b.size) + 1

----------------------------------------------------------------------------
(* C1 *)

\* C1: starting from an empty buffer of capacity S, a write of exactly S
\* samples followed by read(S) returns exactly the S written samples in
\* order, with no zero-substituted position.
C1_WriteCapacityThenReadAll ==
    (last.op = "read" /\ last.n = size /\ last.preBurst = size)
        => last.ret = Ramp(nWritten - size, size)

----------------------------------------------------------------------------
(* C2 *)

\* C2: for capacity S >= 2 the stored samples returned by reads form, in
\* order and without repetition, a subsequence of the written stream; a lost
\* sample is older than every sample still unread; and after writing more
\* than S samples into an empty buffer isFull() is true.
C2_ReadsAreOrderedSubsequence ==
    size >= 2 =>
        /\ \A i \in 1 .. Len(delivered) : delivered[i] \in 1 .. nWritten
        /\ \A i, j \in 1 .. Len(delivered) : i < j => delivered[i] < delivered[j]
        /\ \A l \in Lost : \A u \in Range(Unread(Self)) : l < u
        /\ (last.op = "write" /\ last.n > size /\ IsEmpty(last.pre)) => IsFull(Self)

\* a read returned samples after older ones had been overwritten
C2_Witness ==
    /\ size >= 2
    /\ last.op = "read"
    /\ Len(delivered) >= 2
    /\ Lost # {}
    /\ \E i \in 1 .. Len(delivered) - 1 : delivered[i + 1] > delivered[i] + 1

----------------------------------------------------------------------------
(* C3 *)

\* C3: getAvailableData() is an integer in [0, capacity]: capacity when the
\* FULL flag is set, otherwise the wrapped forward distance from the read
\* cursor to the write cursor; both cursors stay in [0, capacity).
C3_AvailableWithinCapacity ==
    /\ writeIndex \in 0 .. size - 1
    /\ readIndex \in 0 .. size - 1
    /\ GetAvailableData(Self) \in 0 .. size
    /\ GetAvailableData(Self) =
           IF filled THEN size ELSE (writeIndex - readIndex + size) % size

\* the write cursor has wrapped behind the read cursor of a buffer that is
\* not full
C3_Witness ==
    /\ ~filled
    /\ writeIndex < readIndex
    /\ last.op \in {"write", "read"}

----------------------------------------------------------------------------
(* C4 *)

\* C4: read(n) on an empty buffer returns n zeros and leaves the cursors,
\* the FULL flag and the stored samples unchanged; in a partly filled buffer
\* the positions of the result past the last unread sample are 0.
C4_EmptyReadYieldsZeros ==
    last.op = "read" =>
        /\ IsEmpty(last.pre) => (last.ret = Zeros(last.n) /\ Self = last.pre)
        /\ ~last.pre.filled =>
              \A i \in 1 .. last.n :
                  i > GetAvailableData(last.pre) => last.ret[i] = 0

\* an empty buffer whose storage holds samples was read
C4_Witness ==
    /\ last.op = "read"
    /\ last.n >= 2
    /\ IsEmpty(last.pre)
    /\ \E i \in 0 .. size - 1 : buffer[i] # 0

----------------------------------------------------------------------------
(* C5 *)

\* C5: the buffer enters FULL exactly when a write makes the write cursor
\* catch the read cursor (the read cursor then advances by one), and after
\* any read that consumes at least one sample from a FULL buffer isFull()
\* is false.
C5_FullClearedByRead ==
    /\ (~last.pre.filled /\ filled) => last.op = "write"
    /\ (last.op = "write" /\ ~last.pre.filled) =>
           (filled <=> last.n >= Gap(last.pre))
    /\ (last.op = "read" /\ last.pre.filled /\ last.n >= 1) => ~IsFull(Self)

----------------------------------------------------------------------------
(* C6 *)

\* C6: peek(length, offset) changes neither cursor, nor the FULL flag, nor
\* any stored sample, and for length + offset <= capacity it returns the
\* `length` stored samples that end `offset` positions behind the write
\* cursor, in write order (0 where nothing was written since the storage
\* was zeroed).
C6_PeekIsPure ==
    last.op = "peek" =>
        /\ Self = last.pre
        /\ Len(last.ret) = last.n
        /\ last.n + last.off <= size =>
              \A k \in 1 .. last.n :
                  last.ret[k] =
                      IF nSinceClear - last.off - last.n + k >= 1
                      THEN nWritten - last.off - last.n + k
                      ELSE 0

\* a peek with an offset into a buffer whose cursor has wrapped
C6_Witness ==
    /\ last.op = "peek"
    /\ last.n >= 2
    /\ last.off >= 1
    /\ last.n + last.off <= size
    /\ nSinceClear > size
    /\ \A k \in 1 .. last.n : last.ret[k] # 0

----------------------------------------------------------------------------
(* C7 *)

\* C7: clear() puts the buffer back in its initial state: both cursors 0,
\* FULL flag clear, all stored samples 0, so getAvailableData() is 0 and a
\* following read returns only zeros.
C7_ClearRestoresInitialState ==
    /\ last.op = "clear" =>
           /\ Self = NewCircularBuffer(size, AllocAll)
           /\ GetAvailableData(Self) = 0
    /\ (last.op = "read" /\ last.pre = Clear(last.pre)) => last.ret = Zeros(last.n)

\* a full buffer whose cursors had moved was cleared
C7_Witness ==
    /\ last.op = "clear"
    /\ last.pre.filled
    /\ last.pre.readIndex # 0

----------------------------------------------------------------------------
(* C8 *)

\* C8: getWindowedFrames() terminates in every buffer state: it takes a
\* frame only while the available data is at least frameSize, so that one
\* call yields a finite list (at most one frame per hopSize samples that
\* were available beyond the first frame), on return the available data is
\* below frameSize, and a call that finds less than frameSize available
\* returns an empty list and leaves the buffer unchanged.
C8_WindowedFramesTerminates ==
    /\ last.op = "getWindowedFrames:frame" =>
           GetAvailableData(last.pre) >= frameSize
    /\ wpc = "loop" =>
           Len(wFrames) <= ((wAvail - frameSize) \div hopSize) + 1
    /\ last.op = "getWindowedFrames" =>
           /\ GetAvailableData(Self) < frameSize
           /\ last.ret = <<>> => Self = last.pre

----------------------------------------------------------------------------
(* C9 *)

\* C9: under any interleaving of addAudioData and getFrames, getFrames
\* returns at most one frame; a returned frame is exactly the frameSize most
\* recently written samples in write order; getFrames never changes the
\* buffer state; and two polls with no call between them return equal
\* frames.
C9_GetFramesLatestFrame ==
    last.op = "getFrames" =>
        /\ Len(last.ret) <= 1
        /\ Len(last.ret) = 1 => last.ret[1] = Ramp(nWritten - frameSize, frameSize)
        /\ Self = last.pre
        /\ last.prevOp = "getFrames" => last.ret = last.prevRet

\* a second poll in a row returned the frame of a buffer that has wrapped
C9_Witness ==
    /\ last.op = "getFrames"
    /\ last.prevOp = "getFrames"
    /\ Len(last.ret) = 1
    /\ nSinceClear > size
    /\ writeIndex # 0

----------------------------------------------------------------------------
(* C10 *)

----------------------------------------------------------------------------
(* C11 *)

\* the candidates of the fixed list that do not exceed the requested size
\* and whose allocation succeeds
SatisfiableCandidates(req) ==
    {FallbackSizes[j] : j \in {i \in 1 .. Len(FallbackSizes) :
                                  FallbackSizes[i] <= req.bufferSize /\ req.allocOk[i + 1]}}

\* C11: constructing a CircularBuffer never fails, whichever allocations
\* fail: the capacity is the requested size if that allocation succeeds,
\* otherwise the largest candidate of 8192, 4096, 2048, 1024, 512 that does
\* not exceed the requested size and whose allocation succeeds, and 256 if
\* none succeeds; the capacity never exceeds the requested size except for
\* the 256 floor.
C11_ConstructionNeverFails ==
    last.op = "new CircularBuffer" =>
        /\ ~last.threw
        /\ size = IF request.allocOk[1] THEN request.bufferSize
                  ELSE IF SatisfiableCandidates(request) # {}
                       THEN CHOOSE c \in SatisfiableCandidates(request) :
                                \A d \in SatisfiableCandidates(request) : d <= c
                       ELSE 256
        /\ size <= request.bufferSize \/ size = 256

----------------------------------------------------------------------------
(* C12 *)

\* C12: FFT.fft fails with an InvalidSize error for every input whose
\* length is not a power of two (including length 0) and returns no padded
\* or truncated result for it; for every power-of-two length (including 1)
\* it returns a complex sequence of the same length without error.
C12_FftInvalidSize ==
    last.op = "fft" =>
        LET N == Length(request.signal) IN
        /\ last.threw <=> N \notin PowerOfTwoLengths
        /\ last.threw => last.ret = <<>>
        /\ ~last.threw => DOMAIN last.ret = 0 .. N - 1

\* fft was called on a signal of 6 samples and threw
C12_Witness ==
    /\ last.op = "fft"
    /\ Length(request.signal) = 6
    /\ last.threw

----------------------------------------------------------------------------
(* C13 *)

RZero == RInt(0)

\* C13: for every power-of-two length N and every constant value v, FFT.fft
\* of the constant signal has bin 0 equal to N*v (imaginary part 0) and
\* every other bin equal to 0.
C13_FftOfDc ==
    (last.op = "fft" /\ ~last.threw) =>
        \A v \in (0 - MaxAmp) .. MaxAmp :
            LET N == Length(request.signal) IN
            request.signal = DcSignal(N, v) =>
                /\ last.ret[0] = Complex(RInt(N * v), RZero)
                /\ \A i \in 1 .. N - 1 : last.ret[i] = Complex(RZero, RZero)

\* the transform of the longest constant signal of the largest value
C13_Witness ==
    /\ last.op = "fft"
    /\ ~last.threw
    /\ request.signal = DcSignal(TrigN, MaxAmp)

----------------------------------------------------------------------------
(* C14 *)

\* the frequencies f with 0 < f < N/2 whose sinusoid the signal is
SinusoidBins(signal) ==
    {f \in 1 .. Length(signal) \div 2 - 1 : signal = Sinusoid(Length(signal), f)}

\* C14 as stated: for power-of-two N and integer f with 0 < f < N/2, FFT.fft
\* of the signal sin(2*pi*f*i/N) has magnitude N/2 at bin f and magnitude 0
\* at every other bin of the returned spectrum.
C14_SinusoidSinglePeak ==
    (last.op = "fft" /\ ~last.threw) =>
        \A f \in SinusoidBins(request.signal) :
            LET N == Length(request.signal) IN
            \A i \in 0 .. N - 1 :
                ComplexMagnitude(last.ret[i]) = RInt(IF i = f THEN N \div 2 ELSE 0)

\* C14 as amended: the returned spectrum has magnitude N/2 at bin f and at
\* its mirror bin N - f, and magnitude 0 at every other bin.
C14_SinusoidMirroredPeaks ==
    (last.op = "fft" /\ ~last.threw) =>
        \A f \in SinusoidBins(request.signal) :
            LET N == Length(request.signal) IN
            \A i \in 0 .. N - 1 :
                ComplexMagnitude(last.ret[i]) =
                    RInt(IF i = f \/ i = N - f THEN N \div 2 ELSE 0)

\* the transform of a sinusoid of the longest length whose frequency is no
\* divisor of the length
C14_Witness ==
    /\ last.op = "fft"
    /\ ~last.threw
    /\ request.signal = Sinusoid(TrigN, 3)

----------------------------------------------------------------------------
(* C15 *)

\* C15: FFT.ifft is the inverse of FFT.fft on real signals: for every real
\* signal x of power-of-two length N, ifft(fft(x)) = x.
C15_IfftInvertsFft ==
    last.op = "ifft" =>
        /\ ~last.threw
        /\ last.ret = request.signal

----------------------------------------------------------------------------
(* C16 *)

\* C16: LPC.levinsonDurbin on an all-zero autocorrelation vector, for any
\* order, returns a result with predictionError = 0 and every coefficient
\* equal to 0 (no undefined or not-a-number value).
C16_ZeroAutocorrelation ==
    (last.op = "levinsonDurbin" /\ request.autocorr = ZeroArray(request.order + 1)) =>
        /\ last.ret.predictionError = QInt(0)
        /\ \A j \in 0 .. request.order - 1 : last.ret.coefficients[j] = QInt(0)

----------------------------------------------------------------------------
(* C17 *)

\* C17: when the prediction error E becomes <= 0 after the update of stage
\* i, levinsonDurbin stops at that stage: no later stage is computed,
\* coefficients[j] and reflectionCoefficients[j] are 0 for every j > i, the
\* entries up to i keep the values of stage i, and both returned arrays
\* still have length `order`.
C17_StopsAtNonPositiveError ==
    last.op = "levinsonDurbin" =>
        \A s \in 1 .. Len(last.trace) :
            QLeqZero(last.trace[s].E) =>
                LET i == s - 1 IN
                /\ s = Len(last.trace)
                /\ \A j \in i + 1 .. request.order - 1 :
                      /\ last.ret.coefficients[j] = QInt(0)
                      /\ last.ret.reflectionCoefficients[j] = QInt(0)
                /\ \A j \in 0 .. i :
                      /\ last.ret.coefficients[j] = last.trace[s].a[j + 1]
                      /\ last.ret.reflectionCoefficients[j] = last.trace[s].k[j]
                /\ DOMAIN last.ret.coefficients = 0 .. request.order - 1
                /\ DOMAIN last.ret.reflectionCoefficients = 0 .. request.order - 1

\* a call of order 3 whose error became <= 0 in its second stage, after a
\* first stage with a non-zero coefficient
C17_Witness ==
    /\ last.op = "levinsonDurbin"
    /\ request.order = 3
    /\ Len(last.trace) = 2
    /\ QLeqZero(last.trace[2].E)
    /\ last.ret.coefficients[0] # QInt(0)

----------------------------------------------------------------------------
(* C18 *)

\* C18: every LPC result returned by levinsonDurbin, for every
\* autocorrelation vector and order, has predictionError >= 0 and
\* gain = sqrt(predictionError), with coefficients and
\* reflectionCoefficients each of length `order`.
C18_ResultWellFormed ==
    last.op = "levinsonDurbin" =>
        /\ ~IsNaN(last.ret.predictionError)
        /\ last.ret.predictionError.n >= 0
        /\ ~last.ret.gain.nan
        /\ last.ret.gain.square = last.ret.predictionError
        /\ DOMAIN last.ret.coefficients = 0 .. request.order - 1
        /\ DOMAIN last.ret.reflectionCoefficients = 0 .. request.order - 1

----------------------------------------------------------------------------
(* C19 *)

\* C19: whenever levinsonDurbin is given an autocorrelation vector with
\* r[0] > 0 and returns a positive predictionError, every returned
\* reflection coefficient satisfies |k[i]| < 1.
C19_ReflectionBelowOne ==
    (/\ last.op = "levinsonDurbin"
     /\ QPositive(request.autocorr[0])
     /\ QPositive(last.ret.predictionError)) =>
        \A j \in 0 .. request.order - 1 :
            QAbsBelowOne(last.ret.reflectionCoefficients[j])

\* a call of the largest order that ran every stage, with positive error
\* and no zero reflection coefficient
C19_Witness ==
    /\ last.op = "levinsonDurbin"
    /\ request.order = MaxOrder
    /\ QPositive(request.autocorr[0])
    /\ QPositive(last.ret.predictionError)
    /\ Len(last.trace) = MaxOrder
    /\ \A j \in 0 .. request.order - 1 :
          last.ret.reflectionCoefficients[j] # QInt(0)

----------------------------------------------------------------------------
(* C20 *)

\* n+1 areas with area[0] = 1 and area[i+1] = area[i] * (1 - c) / (1 + c)
\* for every i (as the Float32 array holds it), c being k[i] clamped to
\* [-0.99, 0.99]; all-zero coefficients give all areas 1
AreasFollowRatios(k, areas) ==
    LET n == Length(k) IN
    /\ DOMAIN areas = 0 .. n
    /\ areas[0] = FInt(1)
    /\ \A i \in 0 .. n - 1 :
          LET c == Max(-99, Min(99, k[i])) IN
          areas[i + 1] =
              Fround(FMul(areas[i], FDiv(FInt(100 - c), FInt(100 + c))))
    /\ (\A i \in 0 .. n - 1 : k[i] = 0) => \A i \in 0 .. n : areas[i] = FInt(1)

\* C20 as stated: reflectionToArea on n reflection coefficients returns n+1
\* areas with area[0] = 1 and area[i+1] = area[i] * (1 - c) / (1 + c) for
\* every i, c being k[i] clamped to [-0.99, 0.99]; all-zero coefficients
\* give all areas 1, and for every numeric input (also |k[i]| >= 1) every
\* area is strictly positive.
C20_AreasPositive ==
    last.op = "reflectionToArea" =>
        /\ AreasFollowRatios(request.reflectionCoeffs, last.ret)
        /\ \A i \in DOMAIN last.ret : last.ret[i].s = 1

\* C20 as amended: the same, but every area is strictly positive only for
\* inputs of at most 19 coefficients; for longer inputs every area is
\* still a number that is not negative.
C20_AreasPositiveUpTo19 ==
    last.op = "reflectionToArea" =>
        /\ AreasFollowRatios(request.reflectionCoeffs, last.ret)
        /\ \A i \in DOMAIN last.ret :
              /\ last.ret[i].kind # "nan"
              /\ last.ret[i].s >= 0
              /\ Length(request.reflectionCoeffs) <= 19 => last.ret[i].s = 1

\* the areas of 19 coefficients that all lie above the clipping range
C20_Witness ==
    /\ last.op = "reflectionToArea"
    /\ request.reflectionCoeffs = [i \in 0 .. 18 |-> 150]

----------------------------------------------------------------------------
(* C21: RealtimeLPCAnalyzer.updateParameters assigns exactly the fields of *)
(* its argument and keeps the others, analyzeFrame assigns none, and       *)
(* analyzeFrame returns `order` coefficients, `order` reflection           *)
(* coefficients and `order`+1 areas and log-areas for the order in force.  *)
C21_UpdateSetsGivenFieldsOnly ==
    /\ last.op = "updateParameters" =>
          \A f \in AnalyzerFields :
              lpcAnalyzer[f] = IF f \in DOMAIN last.params THEN last.params[f]
                               ELSE last.pre[f]
    /\ last.op = "analyzeFrame" =>
          /\ lpcAnalyzer = last.pre
          /\ Length(last.ret.lpc.coefficients) = lpcAnalyzer.order
          /\ Length(last.ret.lpc.reflectionCoefficients) = lpcAnalyzer.order
          /\ Length(last.ret.areas) = lpcAnalyzer.order + 1
          /\ Length(last.ret.logAreas) = lpcAnalyzer.order + 1

\* a frame with signal in it was analysed at an order set by an update
C21_Witness ==
    /\ last.op = "analyzeFrame"
    /\ lpcAnalyzer.order # request.order
    /\ lpcAnalyzer.preEmphasis # request.preEmphasis
    /\ lpcAnalyzer.sampleRate = request.sampleRate
    /\ lpcAnalyzer.order = 2
    /\ Length(last.ret.areas) = 3
    /\ \E i \in DOMAIN last.frame : last.frame[i] # QInt(0)

----------------------------------------------------------------------------
\* the sum over the bins of max(0, power[i] - previous[i]), from bin i on
RECURSIVE PositiveDifferences(_, _, _)
PositiveDifferences(power, previous, i) ==
    IF i \notin DOMAIN power \/ i \notin DOMAIN previous THEN QInt(0)
    ELSE QAdd(QMax(QInt(0), QSub(power[i], previous[i])),
              PositiveDifferences(power, previous, i + 1))

(* C22: the first extractFeatures call that returns after the construction *)
(* or a reset() has spectralFlux 0, every other one has the sum over the   *)
(* bins of max(0, power[i] - previous[i]) against the power spectrum of    *)
(* the call before it, and each leaves its own power spectrum as the       *)
(* history.  The frames are those of the frame size in force.              *)
C22_FluxAgainstPrecedingCall ==
    (last.op = "extractFeatures" /\ last.threw = "" /\ last.fits) =>
        LET power == FrameAnalysis[last.arg].power.ret IN
        /\ extractor.previousSpectrum = SpectrumOf(power)
        /\ last.ret.spectralFlux =
              IF last.preSeen.null THEN QInt(0)
              ELSE PositiveDifferences(power, last.preSeen.bins, 0)

----------------------------------------------------------------------------
\* the lags estimatePitch searches: minPeriod <= lag < maxPeriod
SearchedLags(sampleRate) == (sampleRate \div 500) .. (sampleRate \div 50 - 1)

\* x is the largest autocorrelation of the frame over the searched lags
IsMaxAutocorr(x, frame, sampleRate) ==
    /\ \E lag \in SearchedLags(sampleRate) : x = AutocorrelationSum(frame, lag, 0)
    /\ \A lag \in SearchedLags(sampleRate) :
          ~QLess(x, AutocorrelationSum(frame, lag, 0))

(* C23: the pitch is null whenever the largest autocorrelation over the    *)
(* searched lags is below 0.3 times the zero-lag autocorrelation of the    *)
(* frame (the sum of its squared samples), and otherwise it is             *)
(* sampleRate / lag for a lag at which that maximum is reached.            *)
C23_UnvoicedBelowThreshold ==
    last.op = "estimatePitch" =>
        \A lag \in SearchedLags(request.sampleRate) :
            LET x == AutocorrelationSum(request.frame, lag, 0) IN
            IsMaxAutocorr(x, request.frame, request.sampleRate) =>
                IF QLess(x, QMul(SumOfSquares(request.frame, 0), Q(3, 10)))
                THEN last.ret.null
                ELSE /\ ~last.ret.null
                     /\ \E at \in SearchedLags(request.sampleRate) :
                           /\ AutocorrelationSum(request.frame, at, 0) = x
                           /\ last.ret.hz = Q(request.sampleRate, at)

(* C26: a pitch that is not null is sampleRate / lag for a lag with        *)
(* floor(sampleRate/500) <= lag <= floor(sampleRate/50) that is not 0: a   *)
(* finite number, also for a frame whose autocorrelation is nowhere        *)
(* positive in that range.                                                 *)
C26_PitchLagInRange ==
    (last.op = "estimatePitch" /\ ~last.ret.null) =>
        \E lag \in (request.sampleRate \div 500) .. (request.sampleRate \div 50) :
            /\ lag # 0
            /\ last.ret.hz = Q(request.sampleRate, lag)
            /\ IsFinite(last.ret.hz)

----------------------------------------------------------------------------
(* C24: the voiceQuality of a record is `silent` when intensity < 0.02,    *)
(* whatever the pitch and the zero-crossing rate; else `voiced` exactly    *)
(* when the pitch is not null, 50 < pitch < 500, zeroCrossingRate < 0.3    *)
(* and intensity > 0.03; else `unvoiced`.  A voiced record has a pitch     *)
(* that is not null and strictly between 50 and 500 Hz.                    *)
C24_VoiceQualityThresholds ==
    (last.op = "extractFeatures" /\ last.threw = "") =>
        LET rec    == last.ret
            f0     == rec.fundamentalFrequency
            silent == SqrtBelow(rec.intensity, Q(2, 100))
            voiced == /\ ~f0.null
                      /\ QLess(QInt(50), f0.hz)
                      /\ QLess(f0.hz, QInt(500))
                      /\ QLess(rec.zeroCrossingRate, Q(3, 10))
                      /\ SqrtAbove(rec.intensity, Q(3, 100))
        IN  /\ rec.voiceQuality \in {"silent", "voiced", "unvoiced"}
            /\ rec.voiceQuality = "silent" <=> silent
            /\ rec.voiceQuality = "voiced" <=> (~silent /\ voiced)
            /\ rec.voiceQuality = "voiced" =>
                  /\ ~f0.null
                  /\ IsFinite(f0.hz)
                  /\ QLess(QInt(50), f0.hz)
                  /\ QLess(f0.hz, QInt(500))

\* a voiced record was returned, for a frame above both thresholds
C24_Witness ==
    /\ last.op = "extractFeatures"
    /\ last.threw = ""
    /\ last.ret.voiceQuality = "voiced"
    /\ SqrtAbove(last.ret.intensity, Q(3, 100))
    /\ IsFinite(last.ret.fundamentalFrequency.hz)

----------------------------------------------------------------------------
\* the power of the bins 0 .. i
RECURSIVE PowerUpTo(_, _)
PowerUpTo(spectrum, i) ==
    IF i < 0 THEN QInt(0) ELSE QAdd(PowerUpTo(spectrum, i - 1), spectrum[i])

\* the bins at which the cumulative power reaches 85% of the total
ReachingBins(spectrum) ==
    {i \in DOMAIN spectrum :
        QGeq(PowerUpTo(spectrum, i),
             QMul(PowerUpTo(spectrum, Length(spectrum) - 1), Q(85, 100)))}

\* the lowest of a set of bins
LowestBin(bins) == CHOOSE i \in bins : \A j \in bins : i <= j

(* C25 as stated: spectralRolloff is the frequency of the lowest bin at    *)
(* which the cumulative power reaches 85% of the total, and the frequency  *)
(* of the highest bin when the threshold is never reached, which is the    *)
(* case when the power spectrum sums to 0.                                 *)
C25_RolloffHighestBinOnZeroPower ==
    last.op = "calculateSpectralRolloff" =>
        LET spectrum == request.spectrum
            freqs    == GetFrequencyBins(request.fftSize, request.sampleRate)
            total    == PowerUpTo(spectrum, Length(spectrum) - 1)
        IN  IF total = QInt(0) \/ ReachingBins(spectrum) = {}
            THEN last.ret = freqs[Length(freqs) - 1]
            ELSE last.ret = freqs[LowestBin(ReachingBins(spectrum))]

(* C25 amended: spectralRolloff is the frequency of the lowest bin at      *)
(* which the cumulative power reaches 85% of the total; for a spectrum     *)
(* that sums to 0 this is bin 0, frequency 0.  It is the frequency of the  *)
(* highest bin when no bin reaches the threshold, which happens only when  *)
(* the total is NaN.                                                       *)
C25_RolloffLowestReachingBin ==
    last.op = "calculateSpectralRolloff" =>
        LET spectrum == request.spectrum
            freqs    == GetFrequencyBins(request.fftSize, request.sampleRate)
            total    == PowerUpTo(spectrum, Length(spectrum) - 1)
        IN  /\ ReachingBins(spectrum) # {} =>
                  last.ret = freqs[LowestBin(ReachingBins(spectrum))]
            /\ ReachingBins(spectrum) = {} =>
                  /\ last.ret = freqs[Length(freqs) - 1]
                  /\ IsNaN(total)
            /\ total = QInt(0) => last.ret = QInt(0)
            /\ ~IsNaN(total) => ReachingBins(spectrum) # {}

\* the rolloff of an all-zero spectrum of several bins was computed
C25_Witness ==
    /\ last.op = "calculateSpectralRolloff"
    /\ Length(request.spectrum) = 3
    /\ \A i \in DOMAIN request.spectrum : request.spectrum[i] = QInt(0)
    /\ last.ret = QInt(0)

----------------------------------------------------------------------------
(* C27 *)

\* C27: getAvailableData() is the number of stored samples a following read
\* delivers before it substitutes zeros (read(getAvailableData()) returns
\* stored samples only and leaves the buffer empty), and the FULL flag is set
\* only while the buffer holds `capacity` unread samples.
C27_AvailableIsWhatReadDelivers ==
    /\ GetAvailableData(Self) = Len(Unread(Self))
    /\ LET res == Read(Self, GetAvailableData(Self)) IN
           /\ res.result = Unread(Self)
           /\ GetAvailableData(res.b) = 0
    /\ filled => Len(Unread(Self)) = size

----------------------------------------------------------------------------
(* C28 *)

\* C28: after any calls of extractFeatures and updateParameters with frames
\* of the frame size in use, extractFeatures on a power-of-two frame of the
\* current frameSize completes without error, and the flux history it meets
\* has as many bins as the spectrum of the frame.
C28_ExtractAfterFrameSizeUpdate ==
    (/\ last.op = "extractFeatures"
     /\ last.fits
     /\ IsPowerOfTwo(Length(last.arg)))
        => /\ last.threw = ""
           /\ ~last.pre.previousSpectrum.null =>
                  Length(last.pre.previousSpectrum.bins)
                      = Length(FrameAnalysis[last.arg].power.ret)

----------------------------------------------------------------------------
(* C29 *)

\* C29: extractFeatures throws InvalidSize exactly when the length of the
\* frame is not a power of two; the error reaches the caller, and the
\* extractor (flux history, sampleRate, frameSize) and its LPC analyzer are
\* as before the call, so that the next call on any frame has the outcome
\* it would have had without the failing call.
C29_InvalidSizeLeavesState ==
    last.op = "extractFeatures" =>
        /\ (last.threw = "InvalidSize") <=> ~IsPowerOfTwo(Length(last.arg))
        /\ last.threw = "InvalidSize" =>
               /\ last.ret = <<>>
               /\ extractor = last.pre
               /\ lpcAnalyzer = last.preAnalyzer
               /\ \A frame \in ExtractorFrames :
                      ExtractFeatures(extractor, frame)
                          = ExtractFeatures(last.pre, frame)

\* a frame of three samples was rejected by an extractor that holds a flux
\* history
C29_Witness ==
    /\ last.op = "extractFeatures"
    /\ last.threw = "InvalidSize"
    /\ Length(last.arg) = 3
    /\ ~last.pre.previousSpectrum.null
    /\ ~extractor.previousSpectrum.null

----------------------------------------------------------------------------
(* C30 *)

\* C30: in a constructed AudioBufferProcessor the frame size never exceeds
\* the capacity of its circular buffer, and a getFrames() called when at
\* least frameSize samples have been passed to addAudioData since the
\* construction or the last clear(), none of them consumed meanwhile,
\* returns a frame.
C30_FrameFitsBuffer ==
    /\ frameSize <= size
    /\ (/\ last.op = "getFrames"
        /\ nSinceClear >= frameSize
        /\ GetAvailableData(last.pre) = Min(nSinceClear, size))
           => Len(last.ret) = 1

====
